---- MODULE Spec2Model ----
(***************************************************************************)
(* Agenda-based bottom-up chart parser for multiple context-free grammars. *)
(* The grammar objects of grammar.py (MCFGRuleElement,                     *)
(* MCFGRuleElementInstance, MCFGRule, MultipleContextFreeGrammar) and the  *)
(* parser of abparser.py (ABEntry, Parser.__call__, AgendaBasedParser) are *)
(* modelled as operators; one parser call is modelled as a state machine.  *)
(***************************************************************************)
EXTENDS Integers, Sequences, FiniteSets, TLC

VARIABLES
  rules,            \* MultipleContextFreeGrammar._rules, as indexes into Pool
  start_variables,  \* the names of MultipleContextFreeGrammar._start_variables
  string,           \* the token sequence handed to the parser
  mode,             \* the mode argument of Parser.__call__
  agenda,           \* _fill_chart: agenda
  chart,            \* _fill_chart: chart
  chart_ids,        \* _fill_chart: chart_ids
  next_id,          \* _fill_chart: next_id
  pc,               \* position inside the call
  error,            \* the exception that ended the call, "" if none
  result,           \* the value the call returned
  call,             \* arguments of a direct call of instantiate_left_side
  ret               \* what that direct call returned

vars == <<rules, start_variables, string, mode, agenda, chart, chart_ids,
          next_id, pc, error, result, call, ret>>

(***************************************************************************)
(* Bounds of the model.                                                    *)
(***************************************************************************)
\* longest token sequence of the general specification
MaxLen == 3
\* longest token sequence when the agenda is popped in an arbitrary order
MaxLenAny == 2
\* largest input position of the spans handed to instantiate_left_side
MaxPos == 3
\* the string variable ids of the rules that are constructed: 0..MaxVar
MaxVar == 2

(***************************************************************************)
(* Python values.                                                          *)
(***************************************************************************)
\* Python's None (also the falsy back-pointer of a seed entry)
None == <<>>

Max(a, b) == IF a > b THEN a ELSE b
Min(a, b) == IF a < b THEN a ELSE b

RECURSIVE SetToSeq(_)
\* iteration over a Python set: one fixed order per set (ascending here)
SetToSeq(S) ==
  IF S = {} THEN <<>>
  ELSE LET m == CHOOSE x \in S : \A y \in S : x <= y
       IN <<m>> \o SetToSeq(S \ {m})

RECURSIVE Flatten(_)
\* [x for xs in seqs for x in xs]
Flatten(seqs) ==
  IF seqs = <<>> THEN <<>> ELSE Head(seqs) \o Flatten(Tail(seqs))

(***************************************************************************)
(* grammar.py: rule elements, instances and rules.                         *)
(***************************************************************************)
MCFGRuleElement(variable, string_variables) ==
  [variable |-> variable, string_variables |-> string_variables]

MCFGRuleElementInstance(variable, string_spans) ==
  [variable |-> variable, string_spans |-> string_spans]

MCFGRule(left_side, right_side) ==
  [left_side |-> left_side, right_side |-> right_side]

\* a small rule pool, each rule as MCFGRule.from_string builds it
SmallRules ==
  <<
    \* 1: A(a)
    MCFGRule(MCFGRuleElement("A", <<<<"a">>>>), <<>>),
    \* 2: B(b)
    MCFGRule(MCFGRuleElement("B", <<<<"b">>>>), <<>>),
    \* 3: B(a)
    MCFGRule(MCFGRuleElement("B", <<<<"a">>>>), <<>>),
    \* 4: S(uv) -> A(u) B(v)
    MCFGRule(MCFGRuleElement("S", <<<<0, 1>>>>), <<MCFGRuleElement("A", <<<<0>>>>), MCFGRuleElement("B", <<<<1>>>>)>>),
    \* 5: S(uv) -> B(u) A(v)
    MCFGRule(MCFGRuleElement("S", <<<<0, 1>>>>), <<MCFGRuleElement("B", <<<<0>>>>), MCFGRuleElement("A", <<<<1>>>>)>>),
    \* 6: X(u, v) -> A(u) B(v)
    MCFGRule(MCFGRuleElement("X", <<<<0>>, <<1>>>>), <<MCFGRuleElement("A", <<<<0>>>>), MCFGRuleElement("B", <<<<1>>>>)>>),
    \* 7: S(uwv) -> X(u, v) A(w)
    MCFGRule(MCFGRuleElement("S", <<<<0, 2, 1>>>>), <<MCFGRuleElement("X", <<<<0>>, <<1>>>>), MCFGRuleElement("A", <<<<2>>>>)>>),
    \* 8: A(uv) -> A(u) A(v)
    MCFGRule(MCFGRuleElement("A", <<<<0, 1>>>>), <<MCFGRuleElement("A", <<<<0>>>>), MCFGRuleElement("A", <<<<1>>>>)>>),
    \* 9: B(uv) -> A(u) B(v)
    MCFGRule(MCFGRuleElement("B", <<<<0, 1>>>>), <<MCFGRuleElement("A", <<<<0>>>>), MCFGRuleElement("B", <<<<1>>>>)>>)
  >>

\* the calibration grammar of the tests, as MCFGRule.from_string builds it
CalibrationRules ==
  <<
    \* 1: S(uv) -> NP(u) VP(v)
    MCFGRule(MCFGRuleElement("S", <<<<0, 1>>>>), <<MCFGRuleElement("NP", <<<<0>>>>), MCFGRuleElement("VP", <<<<1>>>>)>>),
    \* 2: S(uv) -> NPwh(u) VP(v)
    MCFGRule(MCFGRuleElement("S", <<<<0, 1>>>>), <<MCFGRuleElement("NPwh", <<<<0>>>>), MCFGRuleElement("VP", <<<<1>>>>)>>),
    \* 3: S(vuw) -> Aux(u) Swhmain(v, w)
    MCFGRule(MCFGRuleElement("S", <<<<1, 0, 2>>>>), <<MCFGRuleElement("Aux", <<<<0>>>>), MCFGRuleElement("Swhmain", <<<<1>>, <<2>>>>)>>),
    \* 4: S(uvw) -> NPdisloc(u, v) VP(w)
    MCFGRule(MCFGRuleElement("S", <<<<0, 1, 2>>>>), <<MCFGRuleElement("NPdisloc", <<<<0>>, <<1>>>>), MCFGRuleElement("VP", <<<<2>>>>)>>),
    \* 5: S(uwv) -> NPwhdisloc(u, v) VP(w)
    MCFGRule(MCFGRuleElement("S", <<<<0, 2, 1>>>>), <<MCFGRuleElement("NPwhdisloc", <<<<0>>, <<1>>>>), MCFGRuleElement("VP", <<<<2>>>>)>>),
    \* 6: Sbar(uv) -> C(u) S(v)
    MCFGRule(MCFGRuleElement("Sbar", <<<<0, 1>>>>), <<MCFGRuleElement("C", <<<<0>>>>), MCFGRuleElement("S", <<<<1>>>>)>>),
    \* 7: Sbarwh(v, uw) -> C(u) Swhemb(v, w)
    MCFGRule(MCFGRuleElement("Sbarwh", <<<<1>>, <<0, 2>>>>), <<MCFGRuleElement("C", <<<<0>>>>), MCFGRuleElement("Swhemb", <<<<1>>, <<2>>>>)>>),
    \* 8: Sbarwh(u, v) -> NPwh(u) VP(v)
    MCFGRule(MCFGRuleElement("Sbarwh", <<<<0>>, <<1>>>>), <<MCFGRuleElement("NPwh", <<<<0>>>>), MCFGRuleElement("VP", <<<<1>>>>)>>),
    \* 9: Swhmain(v, uw) -> NP(u) VPwhmain(v, w)
    MCFGRule(MCFGRuleElement("Swhmain", <<<<1>>, <<0, 2>>>>), <<MCFGRuleElement("NP", <<<<0>>>>), MCFGRuleElement("VPwhmain", <<<<1>>, <<2>>>>)>>),
    \* 10: Swhmain(w, uxv) -> NPdisloc(u, v) VPwhmain(w, x)
    MCFGRule(MCFGRuleElement("Swhmain", <<<<2>>, <<0, 3, 1>>>>), <<MCFGRuleElement("NPdisloc", <<<<0>>, <<1>>>>), MCFGRuleElement("VPwhmain", <<<<2>>, <<3>>>>)>>),
    \* 11: Swhemb(v, uw) -> NP(u) VPwhemb(v, w)
    MCFGRule(MCFGRuleElement("Swhemb", <<<<1>>, <<0, 2>>>>), <<MCFGRuleElement("NP", <<<<0>>>>), MCFGRuleElement("VPwhemb", <<<<1>>, <<2>>>>)>>),
    \* 12: Swhemb(w, uxv) -> NPdisloc(u, v) VPwhemb(w, x)
    MCFGRule(MCFGRuleElement("Swhemb", <<<<2>>, <<0, 3, 1>>>>), <<MCFGRuleElement("NPdisloc", <<<<0>>, <<1>>>>), MCFGRuleElement("VPwhemb", <<<<2>>, <<3>>>>)>>),
    \* 13: Src(v, uw) -> NP(u) VPrc(v, w)
    MCFGRule(MCFGRuleElement("Src", <<<<1>>, <<0, 2>>>>), <<MCFGRuleElement("NP", <<<<0>>>>), MCFGRuleElement("VPrc", <<<<1>>, <<2>>>>)>>),
    \* 14: Src(w, uxv) -> NPdisloc(u, v) VPrc(w, x)
    MCFGRule(MCFGRuleElement("Src", <<<<2>>, <<0, 3, 1>>>>), <<MCFGRuleElement("NPdisloc", <<<<0>>, <<1>>>>), MCFGRuleElement("VPrc", <<<<2>>, <<3>>>>)>>),
    \* 15: Src(u, v) -> N(u) VP(v)
    MCFGRule(MCFGRuleElement("Src", <<<<0>>, <<1>>>>), <<MCFGRuleElement("N", <<<<0>>>>), MCFGRuleElement("VP", <<<<1>>>>)>>),
    \* 16: Swhrc(u, v) -> Nwh(u) VP(v)
    MCFGRule(MCFGRuleElement("Swhrc", <<<<0>>, <<1>>>>), <<MCFGRuleElement("Nwh", <<<<0>>>>), MCFGRuleElement("VP", <<<<1>>>>)>>),
    \* 17: Swhrc(v, uw) -> NP(u) VPwhrc(v, w)
    MCFGRule(MCFGRuleElement("Swhrc", <<<<1>>, <<0, 2>>>>), <<MCFGRuleElement("NP", <<<<0>>>>), MCFGRuleElement("VPwhrc", <<<<1>>, <<2>>>>)>>),
    \* 18: Sbarwhrc(v, uw) -> C(u) Swhrc(v, w)
    MCFGRule(MCFGRuleElement("Sbarwhrc", <<<<1>>, <<0, 2>>>>), <<MCFGRuleElement("C", <<<<0>>>>), MCFGRuleElement("Swhrc", <<<<1>>, <<2>>>>)>>),
    \* 19: VP(uv) -> Vpres(u) NP(v)
    MCFGRule(MCFGRuleElement("VP", <<<<0, 1>>>>), <<MCFGRuleElement("Vpres", <<<<0>>>>), MCFGRuleElement("NP", <<<<1>>>>)>>),
    \* 20: VP(uv) -> Vpres(u) Sbar(v)
    MCFGRule(MCFGRuleElement("VP", <<<<0, 1>>>>), <<MCFGRuleElement("Vpres", <<<<0>>>>), MCFGRuleElement("Sbar", <<<<1>>>>)>>),
    \* 21: VPwhmain(u, v) -> NPwh(u) Vroot(v)
    MCFGRule(MCFGRuleElement("VPwhmain", <<<<0>>, <<1>>>>), <<MCFGRuleElement("NPwh", <<<<0>>>>), MCFGRuleElement("Vroot", <<<<1>>>>)>>),
    \* 22: VPwhmain(u, wv) -> NPwhdisloc(u, v) Vroot(w)
    MCFGRule(MCFGRuleElement("VPwhmain", <<<<0>>, <<2, 1>>>>), <<MCFGRuleElement("NPwhdisloc", <<<<0>>, <<1>>>>), MCFGRuleElement("Vroot", <<<<2>>>>)>>),
    \* 23: VPwhmain(v, uw) -> Vroot(u) Sbarwh(v, w)
    MCFGRule(MCFGRuleElement("VPwhmain", <<<<1>>, <<0, 2>>>>), <<MCFGRuleElement("Vroot", <<<<0>>>>), MCFGRuleElement("Sbarwh", <<<<1>>, <<2>>>>)>>),
    \* 24: VPwhemb(u, v) -> NPwh(u) Vpres(v)
    MCFGRule(MCFGRuleElement("VPwhemb", <<<<0>>, <<1>>>>), <<MCFGRuleElement("NPwh", <<<<0>>>>), MCFGRuleElement("Vpres", <<<<1>>>>)>>),
    \* 25: VPwhemb(u, wv) -> NPwhdisloc(u, v) Vpres(w)
    MCFGRule(MCFGRuleElement("VPwhemb", <<<<0>>, <<2, 1>>>>), <<MCFGRuleElement("NPwhdisloc", <<<<0>>, <<1>>>>), MCFGRuleElement("Vpres", <<<<2>>>>)>>),
    \* 26: VPwhemb(v, uw) -> Vpres(u) Sbarwh(v, w)
    MCFGRule(MCFGRuleElement("VPwhemb", <<<<1>>, <<0, 2>>>>), <<MCFGRuleElement("Vpres", <<<<0>>>>), MCFGRuleElement("Sbarwh", <<<<1>>, <<2>>>>)>>),
    \* 27: VPrc(u, v) -> N(u) Vpres(v)
    MCFGRule(MCFGRuleElement("VPrc", <<<<0>>, <<1>>>>), <<MCFGRuleElement("N", <<<<0>>>>), MCFGRuleElement("Vpres", <<<<1>>>>)>>),
    \* 28: VPrc(v, uw) -> Vpres(u) Nrc(v, w)
    MCFGRule(MCFGRuleElement("VPrc", <<<<1>>, <<0, 2>>>>), <<MCFGRuleElement("Vpres", <<<<0>>>>), MCFGRuleElement("Nrc", <<<<1>>, <<2>>>>)>>),
    \* 29: VPwhrc(u, v) -> Nwh(u) Vpres(v)
    MCFGRule(MCFGRuleElement("VPwhrc", <<<<0>>, <<1>>>>), <<MCFGRuleElement("Nwh", <<<<0>>>>), MCFGRuleElement("Vpres", <<<<1>>>>)>>),
    \* 30: VPwhrc(v, uw) -> Vpres(u) Sbarwhrc(v, w)
    MCFGRule(MCFGRuleElement("VPwhrc", <<<<1>>, <<0, 2>>>>), <<MCFGRuleElement("Vpres", <<<<0>>>>), MCFGRuleElement("Sbarwhrc", <<<<1>>, <<2>>>>)>>),
    \* 31: NP(uv) -> D(u) N(v)
    MCFGRule(MCFGRuleElement("NP", <<<<0, 1>>>>), <<MCFGRuleElement("D", <<<<0>>>>), MCFGRuleElement("N", <<<<1>>>>)>>),
    \* 32: NP(uvw) -> D(u) Nrc(v, w)
    MCFGRule(MCFGRuleElement("NP", <<<<0, 1, 2>>>>), <<MCFGRuleElement("D", <<<<0>>>>), MCFGRuleElement("Nrc", <<<<1>>, <<2>>>>)>>),
    \* 33: NPdisloc(uv, w) -> D(u) Nrc(v, w)
    MCFGRule(MCFGRuleElement("NPdisloc", <<<<0, 1>>, <<2>>>>), <<MCFGRuleElement("D", <<<<0>>>>), MCFGRuleElement("Nrc", <<<<1>>, <<2>>>>)>>),
    \* 34: NPwh(uv) -> Dwh(u) N(v)
    MCFGRule(MCFGRuleElement("NPwh", <<<<0, 1>>>>), <<MCFGRuleElement("Dwh", <<<<0>>>>), MCFGRuleElement("N", <<<<1>>>>)>>),
    \* 35: NPwh(uvw) -> Dwh(u) Nrc(v, w)
    MCFGRule(MCFGRuleElement("NPwh", <<<<0, 1, 2>>>>), <<MCFGRuleElement("Dwh", <<<<0>>>>), MCFGRuleElement("Nrc", <<<<1>>, <<2>>>>)>>),
    \* 36: NPwhdisloc(uv, w) -> Dwh(u) Nrc(v, w)
    MCFGRule(MCFGRuleElement("NPwhdisloc", <<<<0, 1>>, <<2>>>>), <<MCFGRuleElement("Dwh", <<<<0>>>>), MCFGRuleElement("Nrc", <<<<1>>, <<2>>>>)>>),
    \* 37: Nrc(v, uw) -> C(u) Src(v, w)
    MCFGRule(MCFGRuleElement("Nrc", <<<<1>>, <<0, 2>>>>), <<MCFGRuleElement("C", <<<<0>>>>), MCFGRuleElement("Src", <<<<1>>, <<2>>>>)>>),
    \* 38: Nrc(u, vw) -> N(u) Swhrc(v, w)
    MCFGRule(MCFGRuleElement("Nrc", <<<<0>>, <<1, 2>>>>), <<MCFGRuleElement("N", <<<<0>>>>), MCFGRuleElement("Swhrc", <<<<1>>, <<2>>>>)>>),
    \* 39: Nrc(u, vwx) -> Nrc(u, v) Swhrc(w, x)
    MCFGRule(MCFGRuleElement("Nrc", <<<<0>>, <<1, 2, 3>>>>), <<MCFGRuleElement("Nrc", <<<<0>>, <<1>>>>), MCFGRuleElement("Swhrc", <<<<2>>, <<3>>>>)>>),
    \* 40: N(uv) -> N(u) N(v)
    MCFGRule(MCFGRuleElement("N", <<<<0, 1>>>>), <<MCFGRuleElement("N", <<<<0>>>>), MCFGRuleElement("N", <<<<1>>>>)>>),
    \* 41: NP(uv) -> NP(u) PP(v)
    MCFGRule(MCFGRuleElement("NP", <<<<0, 1>>>>), <<MCFGRuleElement("NP", <<<<0>>>>), MCFGRuleElement("PP", <<<<1>>>>)>>),
    \* 42: PP(uv) -> P(u) NP(v)
    MCFGRule(MCFGRuleElement("PP", <<<<0, 1>>>>), <<MCFGRuleElement("P", <<<<0>>>>), MCFGRuleElement("NP", <<<<1>>>>)>>),
    \* 43: VP(uv) -> VP(u) PP(v)
    MCFGRule(MCFGRuleElement("VP", <<<<0, 1>>>>), <<MCFGRuleElement("VP", <<<<0>>>>), MCFGRuleElement("PP", <<<<1>>>>)>>),
    \* 44: Dwh(which)
    MCFGRule(MCFGRuleElement("Dwh", <<<<"which">>>>), <<>>),
    \* 45: Nwh(who)
    MCFGRule(MCFGRuleElement("Nwh", <<<<"who">>>>), <<>>),
    \* 46: D(the)
    MCFGRule(MCFGRuleElement("D", <<<<"the">>>>), <<>>),
    \* 47: D(a)
    MCFGRule(MCFGRuleElement("D", <<<<"a">>>>), <<>>),
    \* 48: N(greyhound)
    MCFGRule(MCFGRuleElement("N", <<<<"greyhound">>>>), <<>>),
    \* 49: N(human)
    MCFGRule(MCFGRuleElement("N", <<<<"human">>>>), <<>>),
    \* 50: N(saw)
    MCFGRule(MCFGRuleElement("N", <<<<"saw">>>>), <<>>),
    \* 51: N(salmon)
    MCFGRule(MCFGRuleElement("N", <<<<"salmon">>>>), <<>>),
    \* 52: Vpres(saw)
    MCFGRule(MCFGRuleElement("Vpres", <<<<"saw">>>>), <<>>),
    \* 53: Vroot(see)
    MCFGRule(MCFGRuleElement("Vroot", <<<<"see">>>>), <<>>),
    \* 54: Vpres(believes)
    MCFGRule(MCFGRuleElement("Vpres", <<<<"believes">>>>), <<>>),
    \* 55: Vroot(believe)
    MCFGRule(MCFGRuleElement("Vroot", <<<<"believe">>>>), <<>>),
    \* 56: Aux(does)
    MCFGRule(MCFGRuleElement("Aux", <<<<"does">>>>), <<>>),
    \* 57: Aux(did)
    MCFGRule(MCFGRuleElement("Aux", <<<<"did">>>>), <<>>),
    \* 58: C(that)
    MCFGRule(MCFGRuleElement("C", <<<<"that">>>>), <<>>),
    \* 59: P(with)
    MCFGRule(MCFGRuleElement("P", <<<<"with">>>>), <<>>)
  >>


\* two rules that yield the same instance from a pair whose first instance
\* has two equal spans, a rule with one right-side element and one with three
ExtraRules ==
  <<
    \* T(uw, v) -> X(u, v) B(w)
    MCFGRule(MCFGRuleElement("T", <<<<0, 2>>, <<1>>>>), <<MCFGRuleElement("X", <<<<0>>, <<1>>>>), MCFGRuleElement("B", <<<<2>>>>)>>),
    \* T(vw, u) -> X(u, v) B(w)
    MCFGRule(MCFGRuleElement("T", <<<<1, 2>>, <<0>>>>), <<MCFGRuleElement("X", <<<<0>>, <<1>>>>), MCFGRuleElement("B", <<<<2>>>>)>>),
    \* S(u) -> A(u)
    MCFGRule(MCFGRuleElement("S", <<<<0>>>>), <<MCFGRuleElement("A", <<<<0>>>>)>>),
    \* S(uvw) -> A(u) B(v) A(w)
    MCFGRule(MCFGRuleElement("S", <<<<0, 1, 2>>>>), <<MCFGRuleElement("A", <<<<0>>>>), MCFGRuleElement("B", <<<<1>>>>), MCFGRuleElement("A", <<<<2>>>>)>>)
  >>

\* a rule built with the constructor whose first right-side element names one
\* string variable twice: MCFGRule(MCFGRuleElement("S", (0, 1)),
\* MCFGRuleElement("X", (0,), (0,)), MCFGRuleElement("A", (1,)))
RepeatedRules ==
  <<
    \* S(01) -> X(0, 0) A(1)
    MCFGRule(MCFGRuleElement("S", <<<<0, 1>>>>), <<MCFGRuleElement("X", <<<<0>>, <<0>>>>), MCFGRuleElement("A", <<<<1>>>>)>>)
  >>

\* every rule a grammar of the model can hold; a grammar is a set of indexes
Pool == SmallRules \o CalibrationRules \o ExtraRules \o RepeatedRules

SmallIdx == 1..Len(SmallRules)
CalibrationIdx == (Len(SmallRules) + 1)..(Len(SmallRules) + Len(CalibrationRules))
ExtraIdx ==
  (Len(SmallRules) + Len(CalibrationRules) + 1)
    ..(Len(SmallRules) + Len(CalibrationRules) + Len(ExtraRules))
RepeatedIdx ==
  (Len(SmallRules) + Len(CalibrationRules) + Len(ExtraRules) + 1)..Len(Pool)

is_epsilon(r) == Len(r.right_side) = 0

\* a variant of the alignment test that compares the variable names only
AlignsByNamesOnly(r, right_side) ==
  IF Len(right_side) = Len(r.right_side)
  THEN \A j \in 1..Len(right_side) :
         r.right_side[j].variable = right_side[j].variable
  ELSE FALSE

\* a variant of the alignment test that lets a shorter right side align with
\* the first instances
AlignsWithPrefix(r, right_side) ==
  IF Len(r.right_side) \in 1..Len(right_side)
  THEN \A j \in 1..Len(r.right_side) :
         /\ r.right_side[j].variable = right_side[j].variable
         /\ Len(r.right_side[j].string_variables) = Len(right_side[j].string_spans)
  ELSE FALSE

\* MCFGRule._right_side_aligns
_right_side_aligns(r, right_side) ==
  IF Len(right_side) = Len(r.right_side)
  THEN LET vars_match ==
             \A j \in 1..Len(right_side) :
               r.right_side[j].variable = right_side[j].variable
           strvars_match ==
             \A j \in 1..Len(right_side) :
               Len(r.right_side[j].string_variables) = Len(right_side[j].string_spans)
       IN vars_match /\ strvars_match
  ELSE FALSE

\* the (string variable, span) items of the span map, in insertion order
span_items(r, right_side) ==
  Flatten([j \in 1..Min(Len(r.right_side), Len(right_side)) |->
    [c \in 1..Min(Len(r.right_side[j].string_variables),
                  Len(right_side[j].string_spans)) |->
       <<r.right_side[j].string_variables[c][1], right_side[j].string_spans[c]>>]])

\* MCFGRule._build_span_map: the dict, or the ValueError it raises
_build_span_map(r, right_side) ==
  IF _right_side_aligns(r, right_side)
  THEN [raised |-> "", items |-> span_items(r, right_side)]
  ELSE [raised |-> "ValueError", items |-> <<>>]

\* k in span_map
HasKey(items, k) == \E i \in 1..Len(items) : items[i][1] = k

\* span_map[k]: a later item of the dict comprehension replaces an earlier one
GetKey(items, k) ==
  LET i == CHOOSE i \in 1..Len(items) :
             /\ items[i][1] = k
             /\ \A j \in 1..Len(items) : items[j][1] = k => j <= i
  IN items[i][2]

\* outcomes of instantiate_left_side
Returned(variable, string_spans) ==
  [kind |-> "instance", variable |-> variable, string_spans |-> string_spans]
ReturnedNone == [kind |-> "None", variable |-> "", string_spans |-> <<>>]
Raised(exc) == [kind |-> exc, variable |-> "", string_spans |-> <<>>]

\* the least element of a non-empty set of numbers
Least(S) == CHOOSE i \in S : \A j \in S : i <= j

\* a variant of the adjacency loop that stops after its first iteration
StopsInFirstPairOnly(vs, items) ==
  {i \in 2..Min(2, Len(vs)) :
     \/ ~HasKey(items, vs[i-1])
     \/ ~HasKey(items, vs[i])
     \/ GetKey(items, vs[i-1])[2] # GetKey(items, vs[i])[1]}

\* the positions i of a component vs at which "for i in range(1, len(vs))"
\* stops: a string variable missing from the span map, or two spans not adjacent
StopsIn(vs, items) ==
  {i \in 2..Len(vs) :
     \/ ~HasKey(items, vs[i-1])
     \/ ~HasKey(items, vs[i])
     \/ GetKey(items, vs[i-1])[2] # GetKey(items, vs[i])[1]}

\* what stops the loop body at position first of component vs
StopKind(vs, items, first) ==
  IF HasKey(items, vs[first-1]) /\ HasKey(items, vs[first]) THEN "None" ELSE "KeyError"

\* one pass of the loop over the left side's components (grammar.py 249-265),
\* given the positions at which its adjacency loop stops
ComponentVerdict(vs, items, bad) ==
  IF Len(vs) = 0 THEN "IndexError"
  ELSE IF bad # {} THEN StopKind(vs, items, Least(bad))
  ELSE IF HasKey(items, vs[1]) THEN "span" ELSE "KeyError"

\* the outcome of one component: "span", "None" (not adjacent) or an exception
ComponentOutcome(vs, items) == ComponentVerdict(vs, items, StopsIn(vs, items))

\* a variant that ends a component where its first string variable ends
ComponentSpanOfFirst(vs, items) ==
  <<GetKey(items, vs[1])[1], GetKey(items, vs[1])[2]>>

\* (begin_span, end_span) of a component (grammar.py 262-265)
ComponentSpan(vs, items) ==
  <<GetKey(items, vs[1])[1], GetKey(items, vs[Len(vs)])[2]>>

\* the components whose pass does not end with a span
Stops(outcome) == {c \in 1..Len(outcome) : outcome[c] # "span"}

\* the loop of grammar.py 249-269 given each component's outcome: the first
\* component that stops decides, otherwise the new instance is returned
Concatenated(left, items, outcome, stops) ==
  IF stops # {}
  THEN IF outcome[Least(stops)] = "None" THEN ReturnedNone
       ELSE Raised(outcome[Least(stops)])
  ELSE Returned(left.variable,
                [c \in 1..Len(left.string_variables) |->
                   ComponentSpan(left.string_variables[c], items)])

\* grammar.py 246-269 given the span map
ConcatenateWith(left, items) ==
  Concatenated(left, items,
               [c \in 1..Len(left.string_variables) |->
                  ComponentOutcome(left.string_variables[c], items)],
               Stops([c \in 1..Len(left.string_variables) |->
                  ComponentOutcome(left.string_variables[c], items)]))

\* grammar.py 246-269 given what _build_span_map did
Concatenate(left, span_map) ==
  IF span_map.raised # "" THEN Raised(span_map.raised)
  ELSE ConcatenateWith(left, span_map.items)

\* the test "strconst == strvars" of an epsilon rule (grammar.py 237-240)
EpsilonMatches(left, right_side) ==
  [j \in 1..Len(right_side) |-> right_side[j].variable]
    = [c \in 1..Len(left.string_variables) |-> left.string_variables[c][1]]

\* MCFGRule.instantiate_left_side
instantiate_left_side(r, right_side) ==
  IF is_epsilon(r) /\ EpsilonMatches(r.left_side, right_side)
  THEN Returned(r.left_side.variable,
                Flatten([j \in 1..Len(right_side) |-> right_side[j].string_spans]))
  ELSE Concatenate(r.left_side, _build_span_map(r, right_side))

\* the instance inside a "Returned" outcome
InstanceOf(o) == MCFGRuleElementInstance(o.variable, o.string_spans)

(***************************************************************************)
(* grammar.py: the grammar's lookups.                                      *)
(***************************************************************************)
\* MultipleContextFreeGrammar.parts_of_speech(word)
parts_of_speech(word) ==
  {i \in rules : /\ is_epsilon(Pool[i])
                 /\ Pool[i].left_side.string_variables[1][1] = word}

\* a variant of reduce that compares the variable names only
ReduceByNames(right_side) ==
  {i \in rules : AlignsByNamesOnly(Pool[i], right_side)}

\* MultipleContextFreeGrammar.reduce(*right_side); the lru_cache in front of it
\* returns what the first call with equal arguments computed
reduce(right_side) ==
  {i \in rules : _right_side_aligns(Pool[i], right_side)}

(***************************************************************************)
(* abparser.py: chart entries and the agenda loop.                         *)
(***************************************************************************)
\* ABEntry(symbol, index, *backpointers)
ABEntry(symbol, index, backpointers) ==
  [symbol |-> symbol, index |-> index, backpointers |-> backpointers]

\* [r.instantiate_left_side(left, right) for r in possible_rules], None dropped
InstantiateAll(rs, left, right) ==
  [k \in 1..Len(rs) |-> instantiate_left_side(Pool[rs[k]], <<left, right>>)]

\* tuple(i for i in [...] if i is not None)
NotNone(outs) == SelectSeq(outs, LAMBDA o : o.kind # "None")

Instances(kept) == [k \in 1..Len(kept) |-> InstanceOf(kept[k])]

\* the result tuple of _combine for the rules that align (abparser.py 139, 142)
Instantiations(possible_rules, left, right) ==
  Instances(NotNone(InstantiateAll(SetToSeq(possible_rules), left, right)))

\* a variant of _combine that never tries the reversed orientation
CombineForwardOnly(current, element, forward, backward) ==
  IF forward = {}
  THEN [reversed |-> 0, is_none |-> TRUE, result |-> <<>>]
  ELSE [reversed |-> 0, is_none |-> FALSE,
        result |-> Instantiations(forward, current.symbol, element.symbol)]

\* a variant of _combine that reports orientation 0 for both orders
CombineKeepsOrientation(current, element, forward, backward) ==
  IF forward = {}
  THEN IF backward = {}
       THEN [reversed |-> 0, is_none |-> TRUE, result |-> <<>>]
       ELSE [reversed |-> 0, is_none |-> FALSE,
             result |-> Instantiations(backward, element.symbol, current.symbol)]
  ELSE [reversed |-> 0, is_none |-> FALSE,
        result |-> Instantiations(forward, current.symbol, element.symbol)]

\* AgendaBasedParser._combine given the two rule sets it looks up: reversed,
\* and the result (None when is_none)
CombineWith(current, element, forward, backward) ==
  IF forward = {}
  THEN IF backward = {}
       THEN [reversed |-> 0, is_none |-> TRUE, result |-> <<>>]
       ELSE [reversed |-> 1, is_none |-> FALSE,
             result |-> Instantiations(backward, element.symbol, current.symbol)]
  ELSE [reversed |-> 0, is_none |-> FALSE,
        result |-> Instantiations(forward, current.symbol, element.symbol)]

\* AgendaBasedParser._combine
_combine(current, element) ==
  CombineWith(current, element,
              reduce(<<current.symbol, element.symbol>>),
              reduce(<<element.symbol, current.symbol>>))

\* a variant of the loop body that always writes the popped entry first
EntriesOfCurrentFirst(comb, current, element, nid) ==
  LET cur == <<current.index, current.symbol.variable>>
      ele == <<element.index, element.symbol.variable>>
  IN [k \in 1..Len(comb.result) |-> ABEntry(comb.result[k], nid + k - 1, <<<<cur, ele>>>>)]

\* a variant of the loop body that does not advance next_id between the
\* instances of one combination
EntriesOfOneId(comb, current, element, nid) ==
  LET cur == <<current.index, current.symbol.variable>>
      ele == <<element.index, element.symbol.variable>>
      bps == IF comb.reversed = 1 THEN <<ele, cur>> ELSE <<cur, ele>>
  IN [k \in 1..Len(comb.result) |-> ABEntry(comb.result[k], nid, <<bps>>)]

\* the body of "for element in chart" for one element (abparser.py 159-167)
EntriesOf(comb, current, element, nid) ==
  LET cur == <<current.index, current.symbol.variable>>
      ele == <<element.index, element.symbol.variable>>
      bps == IF comb.reversed = 1 THEN <<ele, cur>> ELSE <<cur, ele>>
  IN [k \in 1..Len(comb.result) |-> ABEntry(comb.result[k], nid + k - 1, <<bps>>)]

\* the entries one chart element adds to the agenda
NewEntries(current, element, nid) ==
  EntriesOf(_combine(current, element), current, element, nid)

RECURSIVE ScanChart(_, _, _, _)
\* the entries of the i-th element, then those of the elements after it
ScanFrom(current, ch, i, nid, new) ==
  new \o ScanChart(current, ch, i + 1, nid + Len(new))

\* "for element in chart" from the i-th element on: the entries it appends
ScanChart(current, ch, i, nid) ==
  IF i > Len(ch) THEN <<>>
  ELSE ScanFrom(current, ch, i, nid, NewEntries(current, ch[i], nid))

\* a variant that keeps one chart entry for each symbol
AfterScanMergesSymbols(current, rest, ch, ids, nid, new) ==
  [agenda |-> rest \o new,
   chart |-> IF \E i \in 1..Len(ch) : ch[i].symbol = current.symbol
             THEN ch ELSE Append(ch, current),
   chart_ids |-> ids \cup {current.index},
   next_id |-> nid + Len(new)]

\* a variant that keeps the popped entry out of the chart when it combined
AfterScanKeepsIdle(current, rest, ch, ids, nid, new) ==
  [agenda |-> rest \o new,
   chart |-> IF new = <<>> THEN Append(ch, current) ELSE ch,
   chart_ids |-> IF new = <<>> THEN ids \cup {current.index} ELSE ids,
   next_id |-> nid + Len(new)]

\* the state after "for element in chart" appended new (abparser.py 167-170)
AfterScan(current, rest, ch, ids, nid, new) ==
  [agenda |-> rest \o new,
   chart |-> IF current.index \notin ids THEN Append(ch, current) ELSE ch,
   chart_ids |-> IF current.index \notin ids THEN ids \cup {current.index} ELSE ids,
   next_id |-> nid + Len(new)]

\* a variant of the iteration that walks the chart twice
PopStepScansTwice(ag, ch, ids, nid, k) ==
  AfterScan(ag[k], [j \in 1..(Len(ag) - 1) |-> IF j < k THEN ag[j] ELSE ag[j + 1]],
            ch, ids, nid, ScanChart(ag[k], ch \o ch, 1, nid))

\* a variant of the iteration that pops the newest entry of the agenda
PopStepLast(ag, ch, ids, nid, k) ==
  AfterScan(ag[Len(ag)], SubSeq(ag, 1, Len(ag) - 1),
            ch, ids, nid, ScanChart(ag[Len(ag)], ch, 1, nid))

\* one iteration of "while agenda" (abparser.py 157-170), popping agenda[k];
\* the code pops the front, k = 1
PopStep(ag, ch, ids, nid, k) ==
  AfterScan(ag[k], [j \in 1..(Len(ag) - 1) |-> IF j < k THEN ag[j] ELSE ag[j + 1]],
            ch, ids, nid, ScanChart(ag[k], ch, 1, nid))

\* a variant of the seeding loop that numbers the positions from one
SeedOutcomesFromOne(str) ==
  Flatten([i \in 1..Len(str) |->
    LET possible_rules == SetToSeq(parts_of_speech(str[i]))
    IN [k \in 1..Len(possible_rules) |->
          instantiate_left_side(Pool[possible_rules[k]],
                                <<MCFGRuleElementInstance(str[i], <<<<i, i + 1>>>>)>>)]])

\* the outcomes of the seeding loop (abparser.py 147-150), in agenda order
SeedOutcomes(str) ==
  Flatten([i \in 1..Len(str) |->
    LET possible_rules == SetToSeq(parts_of_speech(str[i]))
    IN [k \in 1..Len(possible_rules) |->
          instantiate_left_side(Pool[possible_rules[k]],
                                <<MCFGRuleElementInstance(str[i], <<<<i - 1, i>>>>)>>)]])

\* a variant of the renumbering that numbers the seeds above the first new id
SeedEntriesFromTop(outs) ==
  [n \in 1..Len(outs) |-> ABEntry(InstanceOf(outs[n]), Len(outs) + n - 1, <<<<None, None>>>>)]

\* the agenda after seeding and renumbering (abparser.py 146-152)
SeedEntries(outs) ==
  [n \in 1..Len(outs) |-> ABEntry(InstanceOf(outs[n]), n - 1, <<<<None, None>>>>)]

SeedAgenda(str) == SeedEntries(SeedOutcomes(str))

\* AgendaBasedParser._get_item
_get_item(inventory, index) ==
  IF \E i \in 1..Len(inventory) : inventory[i].index = index
  THEN inventory[CHOOSE i \in 1..Len(inventory) :
                   /\ inventory[i].index = index
                   /\ \A j \in 1..(i - 1) : inventory[j].index # index]
  ELSE None

\* the leaf test of _construct_parses (abparser.py 181)
IsLeaf(entry) ==
  \/ entry.backpointers = <<>>
  \/ \A c \in 1..Len(entry.backpointers) :
       \A b \in 1..Len(entry.backpointers[c]) : entry.backpointers[c][b] = None

\* a variant of the tree constructor that drops the children
TreeNoChildren(data, children) == [data |-> data, children |-> <<>>]

\* tree.py: Tree(data, children)
Tree(data, children) == [data |-> data, children |-> children]

RECURSIVE _construct_parses(_, _, _)
\* AgendaBasedParser._construct_parses
_construct_parses(ch, str, entry) ==
  IF IsLeaf(entry)
  THEN Tree(entry.symbol.variable \o "(" \o str[entry.symbol.string_spans[1][1] + 1] \o ")",
            <<>>)
  ELSE LET bps == Flatten(entry.backpointers)
       IN Tree(entry.symbol.variable,
               [b \in 1..Len(bps) |->
                  _construct_parses(ch, str, _get_item(ch, bps[b][1]))])

\* a variant of the start-node filter that accepts any span
StartNodesAnySpan(ch, str) ==
  SelectSeq(ch, LAMBDA entry : entry.symbol.variable \in start_variables)

\* the start nodes of _parse and _recognize (abparser.py 117-118, 127-128)
StartNodes(ch, str) ==
  SelectSeq(ch, LAMBDA entry :
    /\ entry.symbol.variable \in start_variables
    /\ entry.symbol.string_spans = <<<<0, Len(str)>>>>)

\* values a call returns
NoResult == [kind |-> "unset", bool |-> FALSE, trees |-> {}]
BoolResult(b) == [kind |-> "bool", bool |-> b, trees |-> {}]
TreesResult(ts) == [kind |-> "trees", bool |-> FALSE, trees |-> ts]
NoneResult == [kind |-> "None", bool |-> FALSE, trees |-> {}]

\* a variant of _recognize that accepts any variable name
RecognizeAnyName(ch, str) ==
  BoolResult(\E i \in 1..Len(ch) : ch[i].symbol.string_spans = <<<<0, Len(str)>>>>)

\* AgendaBasedParser._recognize, given the chart _fill_chart returned
_recognize(ch, str) == BoolResult(Len(StartNodes(ch, str)) > 0)

\* abparser.py 119-123 given the start nodes
ParsesOf(ch, str, start_nodes) ==
  IF Len(start_nodes) >= 1
  THEN TreesResult({_construct_parses(ch, str, start_nodes[i]) :
                      i \in 1..Len(start_nodes)})
  ELSE NoneResult

\* AgendaBasedParser._parse, given the chart _fill_chart returned
_parse(ch, str) == ParsesOf(ch, str, StartNodes(ch, str))

(***************************************************************************)
(* One parser call as a state machine.                                     *)
(***************************************************************************)
Words == {"a", "b"}
Modes == {"recognize", "parse", "tree"}

RECURSIVE StringsOfLen(_)
StringsOfLen(n) ==
  IF n = 0 THEN {<<>>}
  ELSE {Append(w, x) : w \in StringsOfLen(n - 1), x \in Words}

Strings(n) == UNION {StringsOfLen(k) : k \in 0..n}

\* the grammars of the general specification: a lexicon and any binary rules
Lexicons == {{1}, {1, 2}, {1, 2, 3}}
Grammars == {lex \cup bin : lex \in Lexicons, bin \in SUBSET (SmallIdx \ {1, 2, 3})}
StartSets == {{}, {"S", "X"}}

NoCall == [rule |-> 0, right_side |-> <<>>]

InitCall(gs, starts, strs) ==
  /\ rules \in gs
  /\ start_variables \in starts
  /\ string \in strs
  /\ mode \in Modes
  /\ agenda = <<>>
  /\ chart = <<>>
  /\ chart_ids = {}
  /\ next_id = 0
  /\ pc = "call"
  /\ error = ""
  /\ result = NoResult
  /\ call = NoCall
  /\ ret = ReturnedNone

Init == InitCall(Grammars, StartSets, Strings(MaxLen))

\* a variant of the dispatch that fills the chart for any mode
CallAnyMode ==
  /\ pc = "call"
  /\ pc' = "seed"
  /\ UNCHANGED <<rules, start_variables, string, mode, agenda, chart, chart_ids,
                 next_id, error, result, call, ret>>

\* Parser.__call__ (abparser.py 85-92): dispatch on mode
Call ==
  /\ pc = "call"
  /\ IF mode \in {"recognize", "parse"}
     THEN pc' = "seed" /\ error' = error
     ELSE pc' = "error" /\ error' = "ValueError"
  /\ UNCHANGED <<rules, start_variables, string, mode, agenda, chart, chart_ids,
                 next_id, result, call, ret>>

\* abparser.py 151-155 given the outcomes of the seeding loop
SeedWith(outs, raised) ==
  IF raised # {}
  THEN \* instantiate_left_side raised
       /\ pc' = "error"
       /\ error' = outs[Least(raised)].kind
       /\ UNCHANGED <<agenda, next_id>>
  ELSE IF Len(outs) = 0
  THEN \* "next_id = n+1" with n never bound
       /\ pc' = "error"
       /\ error' = "UnboundLocalError"
       /\ UNCHANGED <<agenda, next_id>>
  ELSE /\ agenda' = SeedEntries(outs)
       /\ next_id' = Len(outs)
       /\ pc' = "loop"
       /\ error' = error

\* the seeds on which instantiate_left_side did not return an instance
SeedRaised(outs) == {n \in 1..Len(outs) : outs[n].kind # "instance"}

\* _fill_chart up to the loop (abparser.py 146-155)
Seed ==
  /\ pc = "seed"
  /\ SeedWith(SeedOutcomes(string), SeedRaised(SeedOutcomes(string)))
  /\ chart' = <<>>
  /\ chart_ids' = {}
  /\ UNCHANGED <<rules, start_variables, string, mode, result, call, ret>>

\* a variant of the loop test that never leaves the loop
InstallNeverFilled(st) ==
  /\ agenda' = st.agenda
  /\ chart' = st.chart
  /\ chart_ids' = st.chart_ids
  /\ next_id' = st.next_id
  /\ pc' = "loop"

\* the variables of _fill_chart after an iteration, and the test "while agenda"
Install(st) ==
  /\ agenda' = st.agenda
  /\ chart' = st.chart
  /\ chart_ids' = st.chart_ids
  /\ next_id' = st.next_id
  /\ pc' = IF st.agenda = <<>> THEN "filled" ELSE "loop"

\* one iteration of the agenda loop popping agenda[k], and the loop test
PopAt(k) ==
  /\ pc = "loop"
  /\ agenda # <<>>
  /\ Install(PopStep(agenda, chart, chart_ids, next_id, k))
  /\ UNCHANGED <<rules, start_variables, string, mode, error, result, call, ret>>

\* abparser.py 156-170: agenda.pop(0)
Pop == PopAt(1)

\* _recognize after _fill_chart returned (abparser.py 127-128)
Recognize ==
  /\ pc = "filled"
  /\ mode = "recognize"
  /\ result' = _recognize(chart, string)
  /\ pc' = "done"
  /\ UNCHANGED <<rules, start_variables, string, mode, agenda, chart, chart_ids,
                 next_id, error, call, ret>>

\* _parse after _fill_chart returned (abparser.py 117-123)
Parse ==
  /\ pc = "filled"
  /\ mode = "parse"
  /\ result' = _parse(chart, string)
  /\ pc' = "done"
  /\ UNCHANGED <<rules, start_variables, string, mode, agenda, chart, chart_ids,
                 next_id, error, call, ret>>

Next == Call \/ Seed \/ Pop \/ Recognize \/ Parse

Spec == Init /\ [][Next]_vars

(***************************************************************************)
(* The calibration grammar on the sentences of the tests.                  *)
(***************************************************************************)
\* tests/parser_test.py 126-130: correct_examples
CorrectExamples ==
  << <<"the", "human", "saw", "the", "greyhound">>,
     <<"the", "human", "believes", "that", "the", "greyhound", "saw", "a", "salmon">>,
     <<"which", "human", "that", "saw", "a", "salmon", "believes", "the", "greyhound">>,
     <<"the", "human", "that", "believes", "the", "salmon", "that", "believes",
       "a", "human", "saw", "the", "greyhound">>,
     <<"the", "human", "saw", "the", "greyhound", "with", "a", "salmon">> >>

\* tests/parser_test.py 136-138: incorrect_examples
IncorrectExamples ==
  << <<"the", "human", "saw", "greyhound">>,
     <<"the", "human", "believe", "that", "the", "greyhound", "saw", "a", "salmon">>,
     <<"who", "saw", "a", "salmon">> >>

Range(f) == {f[i] : i \in DOMAIN f}

\* the grammar fixture of the tests: every rule, start variables named S
InitCalibration ==
  InitCall({CalibrationIdx}, {{"S"}}, Range(CorrectExamples) \cup Range(IncorrectExamples))

SpecCalibration == InitCalibration /\ [][Next]_vars

(***************************************************************************)
(* Grammars with rules that are not binary, and with rules that agree.     *)
(***************************************************************************)
\* a lexicon in which "a" is an A and a B, with any of X(u, v) -> A(u) B(v)
\* and the extra rules
GrammarsExtra == {{1, 2, 3} \cup more : more \in SUBSET ({6} \cup ExtraIdx)}

InitExtra == InitCall(GrammarsExtra, {{"S"}}, Strings(MaxLen))

SpecExtra == InitExtra /\ [][Next]_vars

(***************************************************************************)
(* Grammars with a rule whose right side repeats a string variable.        *)
(***************************************************************************)
\* the words "a" and "b", with any of B(a), X(u, v) -> A(u) B(v) and the rule
\* S(01) -> X(0, 0) A(1)
GrammarsRepeated == {{1, 2} \cup more : more \in SUBSET ({3, 6} \cup RepeatedIdx)}

InitRepeated == InitCall(GrammarsRepeated, {{"S"}}, Strings(MaxLen))

SpecRepeated == InitRepeated /\ [][Next]_vars

(***************************************************************************)
(* The agenda popped in an arbitrary order instead of from the front.      *)
(***************************************************************************)
\* the grammars popped in an arbitrary order: one lexicon, one or two binary rules
GrammarsAny == {{1, 2, r1, r2} : r1 \in SmallIdx \ {1, 2, 3}, r2 \in SmallIdx \ {1, 2, 3}}

InitAny == InitCall(GrammarsAny, {{"S", "X"}}, Strings(MaxLenAny))

\* the agenda loop with "agenda.pop(0)" replaced by the pop of any entry
PopAny == \E k \in 1..Len(agenda) : PopAt(k)

NextAny == Call \/ Seed \/ PopAny \/ Recognize \/ Parse

SpecAny == InitAny /\ [][NextAny]_vars

RECURSIVE RunFifo(_, _, _, _)
\* the loop continued from the state an iteration left
FifoNext(st) == RunFifo(st.agenda, st.chart, st.chart_ids, st.next_id)

\* the chart the loop "while agenda: agenda.pop(0) ..." ends with
RunFifo(ag, ch, ids, nid) ==
  IF ag = <<>> THEN ch ELSE FifoNext(PopStep(ag, ch, ids, nid, 1))

\* the chart _fill_chart returns for a token sequence it can seed
FifoChart(str) == RunFifo(SeedAgenda(str), <<>>, {}, Len(SeedOutcomes(str)))

(***************************************************************************)
(* Direct calls of MCFGRule.instantiate_left_side, next to parser calls.   *)
(***************************************************************************)
Spans == {<<b, e>> : b \in 0..MaxPos, e \in 0..MaxPos} \cap {se \in Int \X Int : se[1] < se[2]}

\* the instances a direct call is given: one or two spans
CallInstances ==
  {MCFGRuleElementInstance(v, <<sp>>) : v \in {"A", "B", "X", "a"}, sp \in Spans}
    \cup {MCFGRuleElementInstance(v, <<sp, sq>>) : v \in {"A", "X"}, sp \in Spans, sq \in Spans}

\* the right sides a direct call is given: none, one or two instances
CallRightSides ==
  {<<>>} \cup {<<x>> : x \in CallInstances}
         \cup {<<x, y>> : x \in CallInstances, y \in CallInstances}

InitInstantiate ==
  /\ rules = {}
  /\ start_variables = {}
  /\ string = <<>>
  /\ mode = "recognize"
  /\ agenda = <<>>
  /\ chart = <<>>
  /\ chart_ids = {}
  /\ next_id = 0
  /\ pc = "instantiate"
  /\ error = ""
  /\ result = NoResult
  /\ call = NoCall
  /\ ret = ReturnedNone

\* rule.instantiate_left_side(*right_side) for a rule and instances of the caller
Instantiate ==
  /\ pc = "instantiate"
  /\ \E r \in SmallIdx, right_side \in CallRightSides :
       /\ call' = [rule |-> r, right_side |-> right_side]
       /\ ret' = instantiate_left_side(Pool[r], right_side)
  /\ pc' = "returned"
  /\ UNCHANGED <<rules, start_variables, string, mode, agenda, chart, chart_ids,
                 next_id, error, result>>

InitRules == Init \/ InitInstantiate

NextRules == Next \/ Instantiate

SpecRules == InitRules /\ [][NextRules]_vars

(***************************************************************************)
(* A parser that has been constructed and is called later: the caller      *)
(* supplies the string and the mode (abparser.py 85).  The interpreter     *)
(* runs a call on: neither the dispatch, nor the start of _fill_chart, nor  *)
(* an iteration of its loop is postponed for ever.  For Seed and Pop the   *)
(* weak fairness condition WF_vars(Seed \/ Pop) is written out, ENABLED of *)
(* the action being its guard: the rest of Seed and of Pop assigns every   *)
(* variable and always changes pc or the agenda.                           *)
(***************************************************************************)
GrammarsLoop == {{1, 2, 3} \cup bin : bin \in SUBSET (SmallIdx \ {1, 2, 3})}

InitReady ==
  /\ rules \in GrammarsLoop
  /\ start_variables = {"S", "X"}
  /\ string = <<>>
  /\ mode = "recognize"
  /\ agenda = <<>>
  /\ chart = <<>>
  /\ chart_ids = {}
  /\ next_id = 0
  /\ pc = "ready"
  /\ error = ""
  /\ result = NoResult
  /\ call = NoCall
  /\ ret = ReturnedNone

Enter ==
  /\ pc = "ready"
  /\ \E str \in Strings(MaxLen), m \in Modes : string' = str /\ mode' = m
  /\ pc' = "call"
  /\ UNCHANGED <<rules, start_variables, agenda, chart, chart_ids, next_id, error,
                 result, call, ret>>

NextReady == Enter \/ Next

\* the guards of Seed and of Pop
CanFill == pc = "seed" \/ (pc = "loop" /\ agenda # <<>>)

FillFair == []<>(~CanFill) \/ []<><<CanFill>>_vars

FairSpec ==
  /\ InitReady
  /\ [][NextReady]_vars
  /\ WF_vars(Call)
  /\ FillFair

(***************************************************************************)
(* grammar.py: constructing rules.                                         *)
(***************************************************************************)
\* MCFGRuleElement.unique_string_variables
unique_string_variables(el) ==
  UNION {Range(el.string_variables[c]) : c \in 1..Len(el.string_variables)}

\* the test "sharing" of MCFGRule._validate (grammar.py 175-184)
sharing(right_side) ==
  \E i \in 1..Len(right_side), j \in 1..Len(right_side) :
    /\ i < j
    /\ unique_string_variables(right_side[i])
         \cap unique_string_variables(right_side[j]) # {}

\* a variant of _validate that only asks the left side to use declared variables
ValidateLeftDeclared(left_side, right_side) ==
  IF sharing(right_side) THEN "ValueError"
  ELSE IF /\ right_side # <<>>
          /\ ~(unique_string_variables(left_side)
                 \subseteq UNION {unique_string_variables(right_side[j]) :
                                    j \in 1..Len(right_side)})
       THEN "ValueError"
  ELSE ""

\* MCFGRule._validate: the exception it raises, "" if none
_validate(left_side, right_side) ==
  IF sharing(right_side) THEN "ValueError"
  ELSE IF /\ right_side # <<>>
          /\ unique_string_variables(left_side)
               # UNION {unique_string_variables(right_side[j]) :
                          j \in 1..Len(right_side)}
       THEN "ValueError"
  ELSE ""

\* what a constructor call gives: the object, or the exception raised
Built(obj) == [kind |-> "built", obj |-> obj]
Failed(exc) == [kind |-> exc, obj |-> None]

\* MCFGRule.__init__ (grammar.py 144-148)
NewRule(left_side, right_side) ==
  IF _validate(left_side, right_side) = ""
  THEN Built(MCFGRule(left_side, right_side))
  ELSE Failed(_validate(left_side, right_side))

\* the components a constructed element is given: up to two string variables
VarComponents ==
  {<<>>} \cup {<<u>> : u \in 0..MaxVar} \cup {<<u, v>> : u \in 0..MaxVar, v \in 0..MaxVar}

\* the left sides of the constructed rules: one or two components
LeftSides ==
  {MCFGRuleElement("S", <<c>>) : c \in VarComponents}
    \cup {MCFGRuleElement("S", <<c, d>>) : c \in VarComponents, d \in VarComponents}

\* their right-side elements: one or two components of one string variable
RightElements(name) ==
  {MCFGRuleElement(name, <<<<u>>>>) : u \in 0..MaxVar}
    \cup {MCFGRuleElement(name, <<<<u>>, <<v>>>>) : u \in 0..MaxVar, v \in 0..MaxVar}

RightSides ==
  {<<>>} \cup {<<x>> : x \in RightElements("A")}
         \cup {<<x, y>> : x \in RightElements("A"), y \in RightElements("B")}

(***************************************************************************)
(* grammar.py: rules as text.  A Python str is the sequence of its         *)
(* characters; the variable names and terminals of a rule read from text   *)
(* are such sequences.                                                     *)
(***************************************************************************)
Letters == {"S", "A", "B", "C", "D", "E", "F", "G", "H", "I", "J", "K",
            "a", "b", "c", "d", "e", "f", "g", "h", "i", "j", "k",
            "u", "v", "w", "x"}

DigitChars == <<"0", "1", "2", "3", "4", "5", "6", "7", "8", "9">>

\* the characters the regular expression class \w matches
WordChars == Letters \cup Range(DigitChars)

RECURSIVE Decimal(_)
\* str(n) of a natural number
Decimal(n) ==
  IF n < 10 THEN <<DigitChars[n + 1]>>
  ELSE Decimal(n \div 10) \o <<DigitChars[(n % 10) + 1]>>

RECURSIVE JoinWith(_, _)
\* sep.join(parts)
JoinWith(sep, parts) ==
  IF parts = <<>> THEN <<>>
  ELSE IF Len(parts) = 1 THEN parts[1]
  ELSE parts[1] \o sep \o JoinWith(sep, Tail(parts))

\* ''.join(str(v) for v in vtup): the string variables of a rule with a right
\* side are ints, those of an epsilon rule (literal) are strs
ComponentStr(vtup, literal) ==
  JoinWith(<<>>, [k \in 1..Len(vtup) |-> IF literal THEN vtup[k] ELSE Decimal(vtup[k])])

\* MCFGRuleElement.__str__
ElementStr(el, literal) ==
  el.variable \o <<"(">>
    \o JoinWith(<<",", " ">>,
                [c \in 1..Len(el.string_variables) |->
                   ComponentStr(el.string_variables[c], literal)])
    \o <<")">>

\* MCFGRule.__str__
RuleStr(r) ==
  IF is_epsilon(r) THEN ElementStr(r.left_side, TRUE)
  ELSE ElementStr(r.left_side, FALSE) \o <<" ", "-", ">", " ">>
         \o JoinWith(<<" ">>, [j \in 1..Len(r.right_side) |->
                                 ElementStr(r.right_side[j], FALSE)])

\* MCFGRule.__eq__: the two sides are compared as tuples
RuleEq(r1, r2) ==
  IF Len(r1.right_side) # Len(r2.right_side) THEN FALSE ELSE r1 = r2

\* the last position of the run of \w characters that starts at p
WordEnd(text, p) ==
  CHOOSE e \in p..Len(text) :
    /\ \A i \in p..e : text[i] \in WordChars
    /\ e = Len(text) \/ text[e + 1] \notin WordChars

\* the position of the first ")" at or after position from, 0 if there is none
CloseAt(text, from) ==
  IF \E c \in from..Len(text) : text[c] = ")"
  THEN CHOOSE c \in from..Len(text) :
         text[c] = ")" /\ \A i \in from..(c - 1) : text[i] # ")"
  ELSE 0

\* inner matches (?:\w+,? ?)+
InnerValid(inner) ==
  /\ inner # <<>>
  /\ inner[1] \in WordChars
  /\ \A i \in 2..Len(inner) :
       \/ inner[i] \in WordChars
       \/ inner[i] = "," /\ inner[i - 1] \in WordChars
       \/ inner[i] = " " /\ inner[i - 1] \in WordChars \cup {","}

\* where a match of (\w+)\(((?:\w+,? ?)+?)\) whose name ends at e ends: the
\* position of its ")", 0 if there is no match
MatchCloses(text, e) ==
  IF e + 1 > Len(text) THEN 0
  ELSE IF text[e + 1] # "(" THEN 0
  ELSE IF CloseAt(text, e + 2) = 0 THEN 0
  ELSE IF InnerValid(SubSeq(text, e + 2, CloseAt(text, e + 2) - 1))
       THEN CloseAt(text, e + 2)
  ELSE 0

\* the same for a match that starts at p
MatchEnd(text, p) ==
  IF text[p] \in WordChars THEN MatchCloses(text, WordEnd(text, p)) ELSE 0

RECURSIVE FindElems(_, _)
\* the step of re.findall at position p, given where a match at p ends
FindFrom(text, p, close) ==
  IF close = 0 THEN FindElems(text, p + 1)
  ELSE <<[variable |-> SubSeq(text, p, WordEnd(text, p)),
          svs |-> SubSeq(text, WordEnd(text, p) + 2, close - 1)]>>
         \o FindElems(text, close + 1)

\* re.findall('(\w+)\(((?:\w+,? ?)+?)\)', text) from position p on
FindElems(text, p) ==
  IF p > Len(text) THEN <<>> ELSE FindFrom(text, p, MatchEnd(text, p))

RECURSIVE Split(_)
\* svs.split(',')
Split(svs) ==
  IF \E i \in 1..Len(svs) : svs[i] = ","
  THEN <<SubSeq(svs, 1, Least({i \in 1..Len(svs) : svs[i] = ","}) - 1)>>
         \o Split(SubSeq(svs, Least({i \in 1..Len(svs) : svs[i] = ","}) + 1, Len(svs)))
  ELSE <<svs>>

\* v.strip()
Strip(v) ==
  IF \A i \in 1..Len(v) : v[i] = " " THEN <<>>
  ELSE SubSeq(v, Least({i \in 1..Len(v) : v[i] # " "}),
                 Len(v) + 1 - Least({i \in 1..Len(v) : v[Len(v) + 1 - i] # " "}))

\* elem_tuples (grammar.py 326-328)
ElemTuples(elem_strs) ==
  [k \in 1..Len(elem_strs) |->
     [variable |-> elem_strs[k].variable,
      svs |-> [a \in 1..Len(Split(elem_strs[k].svs)) |-> Strip(Split(elem_strs[k].svs)[a])]]]

\* alternative alt of the pattern matches vs at position p
MatchesAt(alt, vs, p) ==
  /\ p + Len(alt) - 1 <= Len(vs)
  /\ SubSeq(vs, p, p + Len(alt) - 1) = alt

RECURSIVE FindVars(_, _, _)
\* re.findall('(' + '|'.join(strvars) + ')', vs) from position p on, each
\* match as its strvars.index: the first alternative that matches is taken
FindVars(strvars, vs, p) ==
  IF p > Len(vs) THEN <<>>
  ELSE IF \E k \in 1..Len(strvars) : MatchesAt(strvars[k], vs, p)
       THEN <<Least({k \in 1..Len(strvars) : MatchesAt(strvars[k], vs, p)}) - 1>>
              \o FindVars(strvars, vs,
                          p + Len(strvars[Least({k \in 1..Len(strvars) :
                                                   MatchesAt(strvars[k], vs, p)})]))
  ELSE FindVars(strvars, vs, p + 1)

\* strvars.index(sv)
IndexOf(strvars, sv) == Least({k \in 1..Len(strvars) : strvars[k] = sv}) - 1

\* grammar.py 334-351 given elem_tuples (two or more) and strvars
RuleOfTuples(elem_tuples, strvars) ==
  IF Cardinality(Range(strvars)) # Len(strvars) THEN Failed("ValueError")
  ELSE NewRule(
         MCFGRuleElement(elem_tuples[1].variable,
                         [c \in 1..Len(elem_tuples[1].svs) |->
                            FindVars(strvars, elem_tuples[1].svs[c], 1)]),
         [j \in 1..(Len(elem_tuples) - 1) |->
            MCFGRuleElement(elem_tuples[j + 1].variable,
                            [c \in 1..Len(elem_tuples[j + 1].svs) |->
                               <<IndexOf(strvars, elem_tuples[j + 1].svs[c])>>])])

\* grammar.py 330-351 given elem_tuples
FromTuples(elem_tuples) ==
  IF Len(elem_tuples) = 1
  THEN NewRule(MCFGRuleElement(elem_tuples[1].variable, <<elem_tuples[1].svs>>), <<>>)
  ELSE IF Len(elem_tuples) = 0 THEN Failed("IndexError")
  ELSE RuleOfTuples(elem_tuples,
                    Flatten([j \in 1..(Len(elem_tuples) - 1) |-> elem_tuples[j + 1].svs]))

\* MCFGRule.from_string
from_string(rule_string) == FromTuples(ElemTuples(FindElems(rule_string, 1)))

InitBuild ==
  /\ rules = {}
  /\ start_variables = {}
  /\ string = <<>>
  /\ mode = "recognize"
  /\ agenda = <<>>
  /\ chart = <<>>
  /\ chart_ids = {}
  /\ next_id = 0
  /\ pc = "build"
  /\ error = ""
  /\ result = NoResult
  /\ call = NoCall
  /\ ret = ReturnedNone

\* MCFGRule(left_side, *right_side), also for an epsilon rule with a terminal
ConstructRule ==
  /\ pc = "build"
  /\ \/ \E left_side \in LeftSides, right_side \in RightSides :
          /\ call' = [left_side |-> left_side, right_side |-> right_side]
          /\ ret' = NewRule(left_side, right_side)
     \/ \E word \in Words :
          /\ call' = [left_side |-> MCFGRuleElement("A", <<<<word>>>>), right_side |-> <<>>]
          /\ ret' = NewRule(MCFGRuleElement("A", <<<<word>>>>), <<>>)
  /\ pc' = "rule"
  /\ UNCHANGED <<rules, start_variables, string, mode, agenda, chart, chart_ids,
                 next_id, error, result>>

\* the characters used as string variables and terminals of the rule texts
TextLetters == {<<"u">>, <<"v">>, <<"x">>}

\* the components of the left side of a rule text: one or two letters
TextComponents == TextLetters \cup {a \o b : a \in TextLetters, b \in TextLetters}

\* the text after the left side: nothing, or an arrow and right-side elements
RightTexts ==
  { <<>>,
    <<" ", "-", ">", " ", "A", "(", "u", ")">>,
    <<" ", "-", ">", " ", "A", "(", "u", ")", " ", "B", "(", "v", ")">>,
    <<" ", "-", ">", " ", "A", "(", "u", ",", " ", "v", ")">>,
    <<" ", "-", ">", " ", "A", "(", "u", ")", " ", "B", "(", "u", ")">> }

\* "S(abcdefghijk) -> A(a) B(b) ... K(k)": a rule with eleven string variables
ElevenVariables ==
  <<"S", "(", "a", "b", "c", "d", "e", "f", "g", "h", "i", "j", "k", ")", " ", "-", ">", " ">>
    \o JoinWith(<<" ">>,
                [j \in 1..11 |->
                   << <<"A", "B", "C", "D", "E", "F", "G", "H", "I", "J", "K">>[j], "(",
                      <<"a", "b", "c", "d", "e", "f", "g", "h", "i", "j", "k">>[j], ")" >>])

\* the rule texts that are parsed, formatted like "A(u, v) -> B(u) C(v)"
RuleTexts ==
  { <<"S", "(">> \o JoinWith(<<",", " ">>, left) \o <<")">> \o right :
      left \in { <<a>> : a \in TextComponents }
                 \cup { <<a, b>> : a \in TextComponents, b \in TextComponents },
      right \in RightTexts }
    \cup {ElevenVariables}

\* rule = MCFGRule.from_string(rule_string)
FromString ==
  /\ pc = "build"
  /\ \E rule_string \in RuleTexts :
       /\ call' = [rule_string |-> rule_string]
       /\ ret' = from_string(rule_string)
  /\ pc' = "parsed"
  /\ UNCHANGED <<rules, start_variables, string, mode, agenda, chart, chart_ids,
                 next_id, error, result>>

\* MCFGRule.from_string(str(rule)) for the rule that from_string returned
Reparse ==
  /\ pc = "parsed"
  /\ ret.kind = "built"
  /\ call' = [rule |-> ret.obj, rule_string |-> RuleStr(ret.obj)]
  /\ ret' = from_string(RuleStr(ret.obj))
  /\ pc' = "reparsed"
  /\ UNCHANGED <<rules, start_variables, string, mode, agenda, chart, chart_ids,
                 next_id, error, result>>

(***************************************************************************)
(* grammar.py: constructing a grammar.  The alphabet and the variables are *)
(* sets of Python objects of different types, so every object carries its  *)
(* type: a str is never equal to an int or to an MCFGRuleElement.          *)
(***************************************************************************)
PyInt(n) == [int |-> n]
PyStr(s) == [str |-> s]

\* an MCFGRuleElement as a member of a set: the string variables of the left
\* side of an epsilon rule (literal) are strs, all others are ints
ElementObject(el, literal) ==
  [variable |-> el.variable,
   string_variables |->
     [c \in 1..Len(el.string_variables) |->
        [k \in 1..Len(el.string_variables[c]) |->
           IF literal THEN PyStr(el.string_variables[c][k])
           ELSE PyInt(el.string_variables[c][k])]]]

\* r.left_side and the members of r.right_side of rule i of the pool
LeftObject(i) == ElementObject(Pool[i].left_side, is_epsilon(Pool[i]))
RightObjects(i) ==
  {ElementObject(Pool[i].right_side[j], FALSE) : j \in 1..Len(Pool[i].right_side)}

\* {i for r in rules for i in r.right_side + (r.left_side,)}
AllElements(rs) == UNION {RightObjects(i) \cup {LeftObject(i)} : i \in rs}

\* the alphabet of a grammar constructed without one (grammar.py 446-447)
DerivedAlphabet(rs) ==
  {PyStr(Pool[i].left_side.string_variables[1][1]) : i \in {j \in rs : is_epsilon(Pool[j])}}

\* a member of an Enum class
EnumMember(class, name) == [class |-> class, name |-> name]

\* parser_class.normal_form: AgendaBasedParser.normal_form is the CNF of the
\* NormalForm class that abparser.py defines
NormalFormOf(parser_class) == EnumMember("abparser.NormalForm", "CNF")

\* "left_side.string_variables in alphabet": a tuple of tuples is equal to no
\* str and to no MCFGRuleElement
TupleIn(string_variables, alphabet) == FALSE

\* MCFGRule.validate for rule i of the pool: "ValueError" or "" (returns True)
validate(i, alphabet, variables, normal_form) ==
  IF LeftObject(i) \notin variables THEN "ValueError"
  ELSE IF \E s \in RightObjects(i) : s \notin alphabet \cup variables \cup {PyStr("")}
       THEN "ValueError"
  ELSE IF /\ normal_form = EnumMember("grammar.NormalForm", "CNF")
          /\ IF is_epsilon(Pool[i])
             THEN ~TupleIn(Pool[i].left_side.string_variables, alphabet)
             ELSE ~(\A s \in RightObjects(i) : s \in variables)
       THEN "ValueError"
  ELSE ""

\* MultipleContextFreeGrammar._validate_variables
_validate_variables(alphabet, variables, starts) ==
  IF alphabet \cap variables # {} THEN "ValueError"
  ELSE IF \E s \in starts : s \notin variables THEN "ValueError"
  ELSE ""

\* MultipleContextFreeGrammar._validate_rules
_validate_rules(rs, alphabet, variables, parser_class) ==
  IF /\ parser_class # "None"
     /\ \E i \in rs : validate(i, alphabet, variables, NormalFormOf(parser_class)) # ""
  THEN "ValueError"
  ELSE ""

\* grammar.py 449-450 and the grammar that results
Validated(rs, starts, alphabet, variables, parser_class) ==
  IF _validate_variables(alphabet, variables, starts) # "" THEN Failed("ValueError")
  ELSE IF _validate_rules(rs, alphabet, variables, parser_class) # ""
       THEN Failed("ValueError")
  ELSE Built([rules |-> rs, start_variables |-> starts, alphabet |-> alphabet,
              variables |-> variables, parser_class |-> parser_class])

\* MultipleContextFreeGrammar.__init__; an argument left out or empty is {}.
\* Without variables the code iterates over self.rules, which is a method.
NewGrammar(rs, starts, alphabet, variables, parser_class) ==
  IF variables = {} THEN Failed("TypeError")
  ELSE Validated(rs, starts,
                 IF alphabet = {} THEN DerivedAlphabet(rs) ELSE alphabet,
                 variables, parser_class)

\* the rule sets of the grammars that are constructed
GrammarRules == {lex \cup bin : lex \in {{1}, {1, 2}}, bin \in SUBSET {4, 6, 7}}

\* the variables argument: every element of the rules, one of them left
\* out, or no argument
VariableSets(rs) ==
  {{}, AllElements(rs)} \cup {AllElements(rs) \ {e} : e \in AllElements(rs)}

\* the alphabet argument: none, terminals, a terminal that is also the name
\* of a variable, or an alphabet that holds a rule element
Alphabets(rs) ==
  (SUBSET {PyStr("a"), PyStr("b"), PyStr("A")})
    \cup {{PyStr("a"), PyStr("b"), e} : e \in AllElements(rs)}

\* the start_variables argument
StartObjects(rs) == {{}, {e \in AllElements(rs) : e.variable = "S"}}

\* MultipleContextFreeGrammar(rules, start_variables, alphabet, variables)
\* with MultipleContextFreeGrammar.parser_class set or not
ConstructGrammar ==
  /\ pc = "build"
  /\ \E rs \in GrammarRules, parser_class \in {"None", "AgendaBasedParser"} :
       \E starts \in StartObjects(rs), alphabet \in Alphabets(rs),
          variables \in VariableSets(rs) :
         /\ call' = [rules |-> rs, start_variables |-> starts, alphabet |-> alphabet,
                     variables |-> variables, parser_class |-> parser_class]
         /\ ret' = NewGrammar(rs, starts, alphabet, variables, parser_class)
  /\ pc' = "grammar"
  /\ UNCHANGED <<rules, start_variables, string, mode, agenda, chart, chart_ids,
                 next_id, error, result>>

NextBuild == ConstructRule \/ FromString \/ Reparse \/ ConstructGrammar

SpecBuild == InitBuild /\ [][NextBuild]_vars

(***************************************************************************)
(* grammar.py: reduce behind its lru_cache.  The cache of one grammar is a  *)
(* sequence of entries, the most recently used last.                       *)
(***************************************************************************)
\* the number of distinct calls that are cached
MaxCached == 2

\* the maxsize of the cache: 2^15 in Python is 2 xor 15
maxsize == 13

\* the cache entries whose key is equal to the arguments of the call
Cached(cache, key) == {k \in 1..Len(cache) : cache[k].key = key}

\* a hit: the entry becomes the most recently used one
Touched(cache, k) ==
  SubSeq(cache, 1, k - 1) \o SubSeq(cache, k + 1, Len(cache)) \o <<cache[k]>>

\* a miss: the result is stored, the least recently used entry makes room
Stored(cache, key, value) ==
  IF Len(cache) >= maxsize
  THEN Tail(cache) \o <<[key |-> key, value |-> value]>>
  ELSE cache \o <<[key |-> key, value |-> value]>>

\* the instances reduce is called with
ReduceInstances ==
  { MCFGRuleElementInstance("A", <<<<0, 1>>>>),
    MCFGRuleElementInstance("A", <<<<1, 3>>>>),
    MCFGRuleElementInstance("A", <<<<0, 1>>, <<2, 3>>>>),
    MCFGRuleElementInstance("B", <<<<1, 2>>>>),
    MCFGRuleElementInstance("X", <<<<0, 1>>, <<2, 3>>>>) }

\* the rules of the grammars reduce is called on
ReduceGrammars == {{1, 2, 4}, {1, 2, 4, 7}, {1, 2, 6, 7}, SmallIdx}

InitReduce ==
  /\ rules \in ReduceGrammars
  /\ start_variables = {"S", "X"}
  /\ string = <<>>
  /\ mode = "recognize"
  /\ agenda = <<>>
  /\ chart = <<>>
  /\ chart_ids = {}
  /\ next_id = 0
  /\ pc = "reduce"
  /\ error = ""
  /\ result = NoResult
  /\ call = NoCall
  /\ ret = <<>>

\* grammar.reduce(x, y) found in the cache at entry k
ReduceHit(right_side, k) ==
  /\ call' = [right_side |-> right_side, value |-> ret[k].value, hit |-> TRUE]
  /\ ret' = Touched(ret, k)

\* grammar.reduce(x, y) computed and stored
ReduceMiss(right_side, value) ==
  /\ Len(ret) < MaxCached
  /\ call' = [right_side |-> right_side, value |-> value, hit |-> FALSE]
  /\ ret' = Stored(ret, right_side, value)

\* grammar.reduce(x, y)
CallReduce ==
  /\ pc \in {"reduce", "reduced"}
  /\ \E x \in ReduceInstances, y \in ReduceInstances :
       IF Cached(ret, <<x, y>>) # {}
       THEN ReduceHit(<<x, y>>, CHOOSE k \in Cached(ret, <<x, y>>) : TRUE)
       ELSE ReduceMiss(<<x, y>>, reduce(<<x, y>>))
  /\ pc' = "reduced"
  /\ UNCHANGED <<rules, start_variables, string, mode, agenda, chart, chart_ids,
                 next_id, error, result>>

\* the cache after one call of reduce with the arguments key
AfterLookup(cache, key) ==
  IF Cached(cache, key) # {}
  THEN Touched(cache, CHOOSE k \in Cached(cache, key) : TRUE)
  ELSE Stored(cache, key, reduce(key))

\* the instances of the entries _combine is called with
CombineInstances ==
  ReduceInstances \cup { MCFGRuleElementInstance("A", <<<<1, 2>>>>),
                         MCFGRuleElementInstance("B", <<<<2, 3>>>>) }

\* parser._combine(current, element) on a grammar whose cache is empty: one
\* call of reduce, and a second one if the first returned no rule
CallCombine ==
  /\ pc = "reduce"
  /\ \E x \in CombineInstances, y \in CombineInstances :
       /\ call' = [current |-> ABEntry(x, 1, <<<<None, None>>>>),
                   element |-> ABEntry(y, 0, <<<<None, None>>>>),
                   value |-> _combine(ABEntry(x, 1, <<<<None, None>>>>),
                                      ABEntry(y, 0, <<<<None, None>>>>))]
       /\ ret' = IF reduce(<<x, y>>) = {}
                 THEN AfterLookup(AfterLookup(ret, <<x, y>>), <<y, x>>)
                 ELSE AfterLookup(ret, <<x, y>>)
  /\ pc' = "combined"
  /\ UNCHANGED <<rules, start_variables, string, mode, agenda, chart, chart_ids,
                 next_id, error, result>>

NextReduce == CallReduce \/ CallCombine

SpecReduce == InitReduce /\ [][NextReduce]_vars

(***************************************************************************)
(* Properties.                                                             *)
(***************************************************************************)
Ended == pc \in {"done", "error"}

\* an entry with a start-variable name and the single span (0, n)
Covers(e) ==
  /\ e.symbol.variable \in start_variables
  /\ Len(e.symbol.string_spans) = 1
  /\ e.symbol.string_spans[1][1] = 0
  /\ e.symbol.string_spans[1][2] = Len(string)

Accepting(ch) == \E i \in 1..Len(ch) : Covers(ch[i])

Entries == Range(agenda) \cup Range(chart)

Derived(e) == e.backpointers # <<<<None, None>>>>

\* C1: recognize returns true exactly when the chart the agenda loop built
\* holds an entry with a start-variable name and the span tuple ((0, n),); a
\* start-named entry with a partial span or several components does not count.
C1_RecognizeIffStartEntryCoversInput ==
  mode = "recognize" =>
    /\ pc = "done" => result.kind = "bool" /\ (result.bool <=> Accepting(chart))
    /\ pc # "done" => result = NoResult

\* a rejected input whose chart holds start-named entries, one with a partial
\* span and one with two components
C1_Witness ==
  /\ pc = "done"
  /\ mode = "recognize"
  /\ result = BoolResult(FALSE)
  /\ \E i \in 1..Len(chart) :
       /\ chart[i].symbol.variable \in start_variables
       /\ Len(chart[i].symbol.string_spans) = 1
  /\ \E i \in 1..Len(chart) :
       /\ chart[i].symbol.variable \in start_variables
       /\ Len(chart[i].symbol.string_spans) = 2

\* C2: recognize(s) is true iff parse(s) is non-empty, and when no start entry
\* covers the whole input recognize returns false and parse returns None.
C2_RecognizeIffParseNonEmpty ==
  (Ended /\ mode \in {"recognize", "parse"}) =>
    /\ mode = "recognize" =>
         /\ result.kind = "bool"
         /\ result.bool <=> (_parse(chart, string).kind = "trees"
                               /\ _parse(chart, string).trees # {})
    /\ mode = "parse" =>
         /\ result.kind \in {"trees", "None"}
         /\ (result.kind = "trees" /\ result.trees # {}) <=> _recognize(chart, string).bool
    /\ ~Accepting(chart) =>
         result = IF mode = "recognize" THEN BoolResult(FALSE) ELSE NoneResult

\* the symbols (variable, spans) of a chart
Symbols(ch) == {ch[i].symbol : i \in 1..Len(ch)}

\* what the call returns from a chart
ResultFrom(m, ch, str) ==
  IF m = "recognize" THEN _recognize(ch, str) ELSE _parse(ch, str)

\* the finished call has the chart symbols and the result of the FIFO loop
SameAsFifo ==
  pc = "done" =>
    LET fifo == FifoChart(string)
    IN /\ Symbols(chart) = Symbols(fifo)
       /\ result = ResultFrom(mode, fifo, string)

\* (variable, number of components) of each right-side element of a rule
RhsShape(r) ==
  [j \in 1..Len(r.right_side) |->
     <<r.right_side[j].variable, Len(r.right_side[j].string_variables)>>]

\* two rules (or one) whose right sides are each other's reversal
TwoWay(g) ==
  \E i \in g, j \in g :
    /\ Len(Pool[i].right_side) = 2
    /\ Len(Pool[j].right_side) = 2
    /\ RhsShape(Pool[i])[1] = RhsShape(Pool[j])[2]
    /\ RhsShape(Pool[i])[2] = RhsShape(Pool[j])[1]

AnswerSizes == <<1, 1, 1, 2, 2>>

\* the labels of a node's children
ChildLabels(t) == [i \in 1..Len(t.children) |-> t.children[i].data]

\* C4: with the calibration grammar the five correct sentences are recognized
\* and parse to 1, 1, 1, 2 and 2 trees, the last two being the NP and the VP
\* attachment of the PP; the three incorrect sentences are not recognized.
C4_CalibrationScenarios ==
  /\ pc = "error" => mode = "tree"
  /\ pc = "done" =>
       /\ \A i \in 1..Len(CorrectExamples) :
            string = CorrectExamples[i] =>
              IF mode = "recognize" THEN result = BoolResult(TRUE)
              ELSE /\ result.kind = "trees"
                   /\ Cardinality(result.trees) = AnswerSizes[i]
                   /\ \A t \in result.trees : t.data = "S"
       /\ (mode = "parse" /\ string = CorrectExamples[5]) =>
            /\ \E t \in result.trees :
                 /\ ChildLabels(t) = <<"NP", "VP">>
                 /\ ChildLabels(t.children[2]) = <<"Vpres(saw)", "NP">>
                 /\ ChildLabels(t.children[2].children[2]) = <<"NP", "PP">>
            /\ \E t \in result.trees :
                 /\ ChildLabels(t) = <<"NP", "VP">>
                 /\ ChildLabels(t.children[2]) = <<"VP", "PP">>
       /\ \A i \in 1..Len(IncorrectExamples) :
            string = IncorrectExamples[i] =>
              result = IF mode = "recognize" THEN BoolResult(FALSE) ELSE NoneResult

\* the PP-attachment sentence parsed to its two trees
C4_Witness ==
  /\ pc = "done"
  /\ mode = "parse"
  /\ string = CorrectExamples[5]
  /\ Cardinality(result.trees) = 2

\* C5: the agenda loop terminates: once entered, the agenda becomes empty and
\* the chart is returned.
C5_AgendaLoopTerminates == (pc = "loop") ~> (pc = "filled")

\* a returned chart that kept two entries with equal symbols
C5_Witness ==
  /\ pc = "filled"
  /\ agenda = <<>>
  /\ \E i \in 1..Len(chart), j \in 1..Len(chart) :
       i # j /\ chart[i].symbol = chart[j].symbol

\* no token of the input has a lexical rule (the empty input included)
NoTokenMatches == \A i \in 1..Len(string) : parts_of_speech(string[i]) = {}

\* C6: for an input none of whose tokens matches a lexical rule, recognize
\* returns false and parse returns an empty result; no error is raised.
C6_UnmatchedInputRejectedWithoutError ==
  (NoTokenMatches /\ mode \in {"recognize", "parse"}) =>
    /\ pc # "error"
    /\ pc = "done" =>
         result = IF mode = "recognize" THEN BoolResult(FALSE) ELSE NoneResult

\* C7: with no start variables recognize returns false for every input.
C7_NoStartVariablesNeverRecognized ==
  (start_variables = {} /\ mode = "recognize" /\ Ended) =>
    (pc = "done" /\ result = BoolResult(FALSE))

\* the instances align with the right side of rule r
Aligns(r, rs) ==
  /\ Len(rs) = Len(r.right_side)
  /\ \A j \in 1..Len(rs) :
       /\ rs[j].variable = r.right_side[j].variable
       /\ Len(rs[j].string_spans) = Len(r.right_side[j].string_variables)

\* the span the instances rs bind to string variable v of rule r
BoundSpan(r, rs, v) ==
  LET jc == CHOOSE jc \in (1..Len(rs)) \X (1..2) :
              /\ jc[2] <= Len(r.right_side[jc[1]].string_variables)
              /\ r.right_side[jc[1]].string_variables[jc[2]] = <<v>>
  IN rs[jc[1]].string_spans[jc[2]]

\* some component of the left side has two consecutive string variables whose
\* spans are not adjacent
Broken(r, rs) ==
  \E c \in 1..Len(r.left_side.string_variables) :
    LET vs == r.left_side.string_variables[c]
    IN \E i \in 2..Len(vs) : BoundSpan(r, rs, vs[i-1])[2] # BoundSpan(r, rs, vs[i])[1]

\* the spans of the left side: each component from the begin of its first
\* string variable to the end of its last
LeftSpans(r, rs) ==
  [c \in 1..Len(r.left_side.string_variables) |->
     LET vs == r.left_side.string_variables[c]
     IN <<BoundSpan(r, rs, vs[1])[1], BoundSpan(r, rs, vs[Len(vs)])[2]>>]

EntryWithId(i) == CHOOSE e \in Entries : e.index = i

\* the entries the back-pointers of e point to
Parents(e) == <<EntryWithId(e.backpointers[1][1][1]).symbol,
                EntryWithId(e.backpointers[1][2][1]).symbol>>

\* C8: for a binary rule and an aligned pair of instances,
\* instantiate_left_side returns None iff some left-side component has two
\* consecutive string variables with end(span) # begin(span), and otherwise
\* the instance named by the left side whose j-th span runs from the begin of
\* the component's first variable to the end of its last; so every derived
\* entry satisfies the adjacency condition of a rule that produces it from
\* the entries its back-pointers name.
C8_NoMatchIffNotAdjacent ==
  /\ (/\ pc = "returned"
      /\ Len(Pool[call.rule].right_side) = 2
      /\ Aligns(Pool[call.rule], call.right_side)) =>
       IF Broken(Pool[call.rule], call.right_side)
       THEN ret = ReturnedNone
       ELSE ret = Returned(Pool[call.rule].left_side.variable,
                           LeftSpans(Pool[call.rule], call.right_side))
  /\ \A e \in Entries :
       Derived(e) =>
         \E i \in rules :
           /\ Len(Pool[i].right_side) = 2
           /\ Aligns(Pool[i], Parents(e))
           /\ ~Broken(Pool[i], Parents(e))
           /\ e.symbol = MCFGRuleElementInstance(Pool[i].left_side.variable,
                                                 LeftSpans(Pool[i], Parents(e)))

\* S(uwv) -> X(u, v) A(w) called with u and w adjacent but w and v not
C8_Witness ==
  /\ pc = "returned"
  /\ call.rule = 7
  /\ Aligns(Pool[7], call.right_side)
  /\ BoundSpan(Pool[7], call.right_side, 0)[2] = BoundSpan(Pool[7], call.right_side, 2)[1]
  /\ BoundSpan(Pool[7], call.right_side, 2)[2] # BoundSpan(Pool[7], call.right_side, 1)[1]
  /\ ret = ReturnedNone

\* an epsilon rule called with the one phantom instance named by its terminal
SeedsRule(r, rs) ==
  /\ r.right_side = <<>>
  /\ Len(rs) = 1
  /\ rs[1].variable = r.left_side.string_variables[1][1]

\* C9 as stated: instances that do not align with the rule's right side give
\* the no-match value None and no error.
C9_MisalignedCallGivesNoMatch ==
  (pc = "returned" /\ ~Aligns(Pool[call.rule], call.right_side)) => ret = ReturnedNone

\* C9 amended: instances that do not align with the rule's right side make
\* instantiate_left_side raise ValueError, except that an epsilon rule called
\* with the phantom instance of its terminal returns the left instance; None
\* is returned to aligned instances only.
C9_MisalignedCallRaisesValueError ==
  pc = "returned" =>
    /\ ~Aligns(Pool[call.rule], call.right_side) =>
         IF SeedsRule(Pool[call.rule], call.right_side)
         THEN ret.kind = "instance"
         ELSE ret = Raised("ValueError")
    /\ ret = ReturnedNone => Aligns(Pool[call.rule], call.right_side)

\* a binary rule called with the right names but a wrong component count
C9_Witness ==
  /\ pc = "returned"
  /\ Len(Pool[call.rule].right_side) = 2
  /\ Len(call.right_side) = 2
  /\ \A j \in 1..2 : call.right_side[j].variable = Pool[call.rule].right_side[j].variable
  /\ ~Aligns(Pool[call.rule], call.right_side)
  /\ ret = Raised("ValueError")

\* no input position lies inside two components of the instance
NonOverlapping(symbol) ==
  \A c \in 1..Len(symbol.string_spans), d \in 1..Len(symbol.string_spans) :
    c < d =>
      ~(Max(symbol.string_spans[c][1], symbol.string_spans[d][1])
          < Min(symbol.string_spans[c][2], symbol.string_spans[d][2]))

RECURSIVE Derivation(_)
\* the entries an entry is derived from, itself included
Derivation(e) ==
  IF Derived(e)
  THEN {e} \cup Derivation(EntryWithId(e.backpointers[1][1][1]))
           \cup Derivation(EntryWithId(e.backpointers[1][2][1]))
  ELSE {e}

C11_SpansWithinInput ==
  \A x \in Entries :
    \A c \in 1..Len(x.symbol.string_spans) :
      /\ 0 <= x.symbol.string_spans[c][1]
      /\ x.symbol.string_spans[c][1] <= x.symbol.string_spans[c][2]
      /\ x.symbol.string_spans[c][2] <= Len(string)

\* a derived two-component entry that reaches the end of the input, next to a
\* derived entry that spans the whole input
C11_Witness ==
  /\ Len(string) >= 2
  /\ \E x \in Entries :
       /\ Derived(x)
       /\ Len(x.symbol.string_spans) = 2
       /\ \E c \in 1..2 : x.symbol.string_spans[c][2] = Len(string)
  /\ \E x \in Entries : Derived(x) /\ x.symbol.string_spans = <<<<0, Len(string)>>>>

\* the ids of the entries of a sequence
Ids(entries) == [i \in 1..Len(entries) |-> entries[i].index]

\* no value occurs twice in the sequence
Distinct(seq) == \A i \in 1..Len(seq), j \in 1..Len(seq) : i # j => seq[i] # seq[j]

\* C12: no two chart entries share an id, no agenda entry has the id of a
\* chart entry, and each id is given to one entry only: the ids of all
\* entries are pairwise distinct and below the counter next_id.
C12_IdsUnique ==
  /\ Distinct(Ids(chart) \o Ids(agenda))
  /\ chart_ids = Range(Ids(chart))
  /\ pc \in {"loop", "filled", "done"} =>
       \A x \in Entries : 0 <= x.index /\ x.index < next_id

\* one combination has put two entries on the agenda
C12_Witness ==
  /\ pc = "loop"
  /\ \E i \in 1..Len(agenda), j \in 1..Len(agenda) :
       /\ i # j
       /\ Derived(agenda[i])
       /\ agenda[i].backpointers = agenda[j].backpointers
  /\ \E i \in 1..Len(chart) : Derived(chart[i])

\* the ids an entry's back-pointers refer to
ReferencedIds(x) ==
  {Flatten(x.backpointers)[b][1] : b \in 1..Len(Flatten(x.backpointers))}

\* C13: when the agenda loop has finished, every id a chart entry's
\* back-pointers refer to is the id of a chart entry, so _get_item finds it.
C13_BackPointersResolve ==
  pc \in {"filled", "done"} =>
    \A i \in 1..Len(chart) :
      Derived(chart[i]) =>
        \A id \in ReferencedIds(chart[i]) :
          /\ id \in Range(Ids(chart))
          /\ _get_item(chart, id).index = id

\* a finished chart with an entry derived from a derived entry
C13_Witness ==
  /\ pc = "filled"
  /\ \E i \in 1..Len(chart), j \in 1..Len(chart) :
       /\ Derived(chart[i])
       /\ Derived(chart[j])
       /\ chart[j].index \in ReferencedIds(chart[i])

\* the string variable ids that occur in an element
IdsOf(el) ==
  {v \in 0..MaxVar : \E c \in 1..Len(el.string_variables) :
                       \E k \in 1..Len(el.string_variables[c]) :
                         el.string_variables[c][k] = v}

\* C14: constructing a rule raises an error iff two right-side elements share
\* a string-variable id, or the rule has a right side and the set of
\* left-side ids differs from the union of the right-side ids; otherwise the
\* rule is constructed.
C14_RuleConstructionFailsIffInvalid ==
  pc = "rule" =>
    LET left == call.left_side
        right == call.right_side
        shared == \E i \in 1..Len(right), j \in 1..Len(right) :
                    i # j /\ IdsOf(right[i]) \cap IdsOf(right[j]) # {}
        unequal == /\ right # <<>>
                   /\ \E v \in 0..MaxVar :
                        (v \in IdsOf(left)) # (\E j \in 1..Len(right) : v \in IdsOf(right[j]))
    IN IF shared \/ unequal
       THEN ret = Failed("ValueError")
       ELSE ret = Built(MCFGRule(left, right))

\* a rule refused only because a right-side variable is missing on the left
C14_Witness ==
  /\ pc = "rule"
  /\ Len(call.right_side) = 2
  /\ IdsOf(call.right_side[1]) \cap IdsOf(call.right_side[2]) = {}
  /\ IdsOf(call.left_side) = IdsOf(call.right_side[1])
  /\ ret = Failed("ValueError")

\* the characters of the right-side string variables of a rule text
ProducedChars(elem_tuples) ==
  UNION {UNION {Range(elem_tuples[j].svs[c]) : c \in 1..Len(elem_tuples[j].svs)} :
           j \in 2..Len(elem_tuples)}

\* the left side of a rule text with a right side has a component that names
\* a variable of no right-side element
NamesUnproduced(elem_tuples) ==
  /\ Len(elem_tuples) >= 2
  /\ \E c \in 1..Len(elem_tuples[1].svs) :
       ~(Range(elem_tuples[1].svs[c]) \subseteq ProducedChars(elem_tuples))

\* C15: constructing a rule with a right side fails when a left-side
\* component is left without any right-side variable or names a variable that
\* occurs on no right-side element, both for a direct construction and for
\* Rule.from_string.
C15_UnproducedComponentFails ==
  /\ pc = "rule" =>
       ((/\ call.right_side # <<>>
         /\ \E c \in 1..Len(call.left_side.string_variables) :
              \/ call.left_side.string_variables[c] = <<>>
              \/ \E k \in 1..Len(call.left_side.string_variables[c]) :
                   \A j \in 1..Len(call.right_side) :
                     call.left_side.string_variables[c][k] \notin IdsOf(call.right_side[j]))
        => ret.kind # "built")
  /\ pc = "parsed" =>
       (NamesUnproduced(ElemTuples(FindElems(call.rule_string, 1))) => ret.kind # "built")

\* C19: for every rule that Rule.from_string produced, parsing the text of
\* the rule again succeeds and gives an equal rule.
C19_ReparseGivesSameRule ==
  pc = "reparsed" => (ret.kind = "built" /\ RuleEq(ret.obj, call.rule))

\* the alphabet a constructed grammar works with
AlphabetUsed == IF call.alphabet = {} THEN DerivedAlphabet(call.rules) ELSE call.alphabet

\* some member of the alphabet is a variable, or is the name of one
Overlap(alphabet, variables) ==
  \/ alphabet \cap variables # {}
  \/ \E v \in variables : PyStr(v.variable) \in alphabet

\* C16: constructing a grammar fails when some terminal of the alphabet is
\* also a variable symbol, and a constructed grammar has no symbol that is
\* both a terminal and a variable.
C16_OverlapRefused ==
  pc = "grammar" =>
    /\ Overlap(AlphabetUsed, call.variables) => ret.kind # "built"
    /\ ret.kind = "built" => ~Overlap(ret.obj.alphabet, ret.obj.variables)

\* some rule has a right-side element that is not a registered variable
UnregisteredRight(rs, variables) ==
  \E i \in rs : \E s \in RightObjects(i) : s \notin variables

\* the single literal of some epsilon rule is not in the alphabet
LiteralMissing(rs, alphabet) ==
  \E i \in rs : /\ is_epsilon(Pool[i])
                /\ PyStr(Pool[i].left_side.string_variables[1][1]) \notin alphabet

\* C17: with the agenda parser as parser class, constructing a grammar raises
\* a validation error if some right-side element is not a registered variable
\* or if the literal of some epsilon rule is not in the alphabet; a grammar
\* without either defect (whose left sides and start variables are
\* registered and whose alphabet is disjoint from its variables) is accepted.
C17_ChartFormValidated ==
  (pc = "grammar" /\ call.parser_class = "AgendaBasedParser" /\ call.variables # {}) =>
    /\ UnregisteredRight(call.rules, call.variables) => ret.kind = "ValueError"
    /\ LiteralMissing(call.rules, AlphabetUsed) => ret.kind = "ValueError"
    /\ (/\ ~UnregisteredRight(call.rules, call.variables)
        /\ ~LiteralMissing(call.rules, AlphabetUsed)
        /\ \A i \in call.rules : LeftObject(i) \in call.variables
        /\ _validate_variables(AlphabetUsed, call.variables, call.start_variables) = "")
       => ret.kind = "built"

\* C18: a call with mode "recognize" that returns gives the boolean of
\* _recognize, one with mode "parse" gives the result of _parse, and a call
\* with any other mode raises ValueError before anything of the chart or the
\* agenda is built.
C18_ModeDispatch ==
  /\ (pc = "done" /\ mode = "recognize") =>
       (result.kind = "bool" /\ result = _recognize(chart, string))
  /\ (pc = "done" /\ mode = "parse") =>
       (result.kind \in {"trees", "None"} /\ result = _parse(chart, string))
  /\ mode \notin {"recognize", "parse"} =>
       /\ pc \in {"call", "error"}
       /\ pc = "error" => error = "ValueError"
       /\ agenda = <<>> /\ chart = <<>> /\ chart_ids = {} /\ next_id = 0
       /\ result = NoResult

\* a call with the mode "tree" has raised ValueError for a sentence the
\* grammar derives
C18_Witness ==
  /\ mode = "tree"
  /\ pc = "error"
  /\ error = "ValueError"
  /\ chart = <<>>
  /\ string = <<"a", "b">>
  /\ {1, 2, 4} \subseteq rules

\* the rules with two right-side elements whose names are those of x and y,
\* in that order, and whose component counts are the numbers of spans
AlignedRules(x, y) ==
  {i \in rules :
     /\ Len(Pool[i].right_side) = 2
     /\ Pool[i].right_side[1].variable = x.variable
     /\ Pool[i].right_side[2].variable = y.variable
     /\ Len(Pool[i].right_side[1].string_variables) = Len(x.string_spans)
     /\ Len(Pool[i].right_side[2].string_variables) = Len(y.string_spans)}

\* two calls that differ at most in the span values
SameButSpans(rs1, rs2) ==
  \A j \in 1..2 : /\ rs1[j].variable = rs2[j].variable
                  /\ Len(rs1[j].string_spans) = Len(rs2[j].string_spans)

C21_BackPointersInRuleOrder ==
  \A e \in Entries :
    Derived(e) =>
      /\ Len(e.backpointers) = 1
      /\ Len(e.backpointers[1]) = 2
      /\ \A b \in 1..2 :
           /\ \E x \in Entries : x.index = e.backpointers[1][b][1]
           /\ EntryWithId(e.backpointers[1][b][1]).symbol.variable = e.backpointers[1][b][2]
      /\ \E i \in rules :
           /\ Len(Pool[i].right_side) = 2
           /\ \A b \in 1..2 : Pool[i].right_side[b].variable = e.backpointers[1][b][2]
           /\ instantiate_left_side(Pool[i], Parents(e))
                = Returned(e.symbol.variable, e.symbol.string_spans)

\* the chart holds an entry made with the popped entry first and one made
\* with the popped entry second
C21_Witness ==
  /\ pc = "filled"
  /\ \E i \in 1..Len(chart) :
       /\ Derived(chart[i])
       /\ chart[i].backpointers[1][1][1] > chart[i].backpointers[1][2][1]
  /\ \E i \in 1..Len(chart) :
       /\ Derived(chart[i])
       /\ chart[i].backpointers[1][1][1] < chart[i].backpointers[1][2][1]

\* the instances the rules of rs yield from the pair, one for each rule
\* whose adjacency conditions hold
Yielded(rs, pair) ==
  {MCFGRuleElementInstance(Pool[i].left_side.variable, LeftSpans(Pool[i], pair)) :
     i \in {j \in rs : ~Broken(Pool[j], pair)}}

\* the result tuple holds one instance for each rule of rs that yields one
ResultOf(value, rs, pair) ==
  /\ ~value.is_none
  /\ Range(value.result) = Yielded(rs, pair)
  /\ Len(value.result) = Cardinality({j \in rs : ~Broken(Pool[j], pair)})

\* C22: _combine(current, element) uses the rules that align with (current,
\* element) and reports orientation 0; only if there are none it uses the
\* rules that align with (element, current) and reports orientation 1; the
\* result holds the instance of every such rule that instantiates on the two
\* instances in that order and nothing else; with no rule in either order it
\* reports orientation 0 and no instances.
C22_CombineForwardThenReversed ==
  pc = "combined" =>
    LET cur == call.current.symbol
        ele == call.element.symbol
    IN IF AlignedRules(cur, ele) # {}
       THEN /\ call.value.reversed = 0
            /\ ResultOf(call.value, AlignedRules(cur, ele), <<cur, ele>>)
       ELSE IF AlignedRules(ele, cur) # {}
       THEN /\ call.value.reversed = 1
            /\ ResultOf(call.value, AlignedRules(ele, cur), <<ele, cur>>)
       ELSE /\ call.value.reversed = 0
            /\ call.value.result = <<>>

\* the reversed order gave an instance
C22_Witness ==
  /\ pc = "combined"
  /\ call.value.reversed = 1
  /\ call.value.result # <<>>
  /\ AlignedRules(call.current.symbol, call.element.symbol) = {}

\* the entries popped so far followed by those that wait
Processed == chart \o agenda

\* C23: the seed entries have the ids 0..k-1 in the order of their input
\* positions and the derived entries follow them; the entries are popped in
\* increasing id order, so the chart lists the ids 0, 1, 2, ... without a gap
\* and the agenda continues them up to next_id - 1; when the loop has ended
\* the chart lists exactly the ids 0..next_id-1.
C23_FifoOrder ==
  pc \in {"loop", "filled", "done"} =>
    /\ \A i \in 1..Len(Processed) : Processed[i].index = i - 1
    /\ next_id = Len(Processed)
    /\ \A i \in 1..Len(Processed), j \in 1..Len(Processed) :
         (i < j /\ ~Derived(Processed[j])) =>
           /\ ~Derived(Processed[i])
           /\ Processed[i].symbol.string_spans[1][1] <= Processed[j].symbol.string_spans[1][1]
    /\ Len(SelectSeq(Processed, LAMBDA e : ~Derived(e))) = Len(SeedOutcomes(string))
    /\ pc \in {"filled", "done"} => agenda = <<>>

\* the loop has ended with several seeds and derived entries of two rounds
C23_Witness ==
  /\ pc = "filled"
  /\ Len(chart) = next_id
  /\ Len(chart) > 3
  /\ ~Derived(chart[3])
  /\ \E i \in 1..Len(chart) :
       /\ Derived(chart[i])
       /\ Derived(EntryWithId(chart[i].backpointers[1][1][1]))

\* the rules that yield the symbol of e from the entries its back-pointers name
Producers(e) ==
  {i \in rules : /\ Len(Pool[i].right_side) = 2
                 /\ Aligns(Pool[i], Parents(e))
                 /\ ~Broken(Pool[i], Parents(e))
                 /\ e.symbol = MCFGRuleElementInstance(Pool[i].left_side.variable,
                                                       LeftSpans(Pool[i], Parents(e)))}

\* C24 as stated: every successful instantiation has its own chart entry, and
\* two chart entries with equal symbol have different ids and different
\* back-pointer tuples.
C24_EqualSymbolsDifferInBackPointers ==
  \A i \in 1..Len(chart), j \in 1..Len(chart) :
    (i # j /\ chart[i].symbol = chart[j].symbol) =>
      /\ chart[i].index # chart[j].index
      /\ chart[i].backpointers # chart[j].backpointers

\* C24: chart entries are never merged: two chart entries have different
\* ids, and every derived entry stands for one rule that yields its symbol
\* from its back-pointed entries, so there are as many entries with its
\* symbol and back-pointers as there are such rules; two entries with equal
\* symbol have different back-pointer tuples unless two rules of the grammar
\* yield that symbol from the same pair.
C24_EntriesNeverMerged ==
  /\ \A i \in 1..Len(chart), j \in 1..Len(chart) :
       i # j => chart[i].index # chart[j].index
  /\ \A e \in Entries :
       Derived(e) =>
         Cardinality({x \in Entries : x.symbol = e.symbol /\ x.backpointers = e.backpointers})
           = Cardinality(Producers(e))
  /\ \A i \in 1..Len(chart), j \in 1..Len(chart) :
       (/\ i # j
        /\ chart[i].symbol = chart[j].symbol
        /\ chart[i].backpointers = chart[j].backpointers)
         => (Derived(chart[i]) /\ Cardinality(Producers(chart[i])) >= 2)

\* the chart holds two entries with equal symbol and different back-pointers
\* and two entries with equal symbol and equal back-pointers
C24_Witness ==
  /\ pc = "filled"
  /\ \E i \in 1..Len(chart), j \in 1..Len(chart) :
       /\ i # j
       /\ chart[i].symbol = chart[j].symbol
       /\ chart[i].backpointers # chart[j].backpointers
  /\ \E i \in 1..Len(chart), j \in 1..Len(chart) :
       /\ i # j
       /\ chart[i].symbol = chart[j].symbol
       /\ chart[i].backpointers = chart[j].backpointers

\* the chart entries with a start-variable name and the span tuple ((0, n),)
CoveringEntries == {chart[i] : i \in {j \in 1..Len(chart) : Covers(chart[j])}}

\* C25: _construct_parses gives a seed entry the childless tree Var(word) for
\* the input token at the start of its span and a derived entry the tree
\* labelled with its variable over the trees of its two back-pointed entries
\* in back-pointer order; parse returns the set of these trees for the chart
\* entries with a start-variable name and span ((0, n),).
C25_TreesFollowBackPointers ==
  (pc = "done" /\ mode = "parse") =>
    /\ \A i \in 1..Len(chart) :
         IF Derived(chart[i])
         THEN _construct_parses(chart, string, chart[i])
                = [data |-> chart[i].symbol.variable,
                   children |->
                     [b \in 1..2 |->
                        _construct_parses(chart, string,
                                          EntryWithId(chart[i].backpointers[1][b][1]))]]
         ELSE _construct_parses(chart, string, chart[i])
                = [data |-> chart[i].symbol.variable \o "("
                              \o string[chart[i].symbol.string_spans[1][1] + 1] \o ")",
                   children |-> <<>>]
    /\ IF CoveringEntries = {}
       THEN result = NoneResult
       ELSE result = TreesResult({_construct_parses(chart, string, e) : e \in CoveringEntries})

\* parse returned two trees, one of them with a derived entry below the root
C25_Witness ==
  /\ pc = "done"
  /\ mode = "parse"
  /\ result.kind = "trees"
  /\ Cardinality(result.trees) >= 2
  /\ \E t \in result.trees : \E c \in 1..Len(t.children) : t.children[c].children # <<>>

RECURSIVE Height(_)
\* the number of nodes on the longest path from the root of a tree to a leaf
Height(t) ==
  IF t.children = <<>>
  THEN 1
  ELSE LET hs == {Height(t.children[c]) : c \in 1..Len(t.children)}
       IN 1 + CHOOSE h \in hs : \A g \in hs : g <= h

\* C26: every back-pointer of an entry names an id smaller than the entry's
\* own id, so following back-pointers never returns to an entry, and the tree
\* _construct_parses builds for a chart entry is finite: its height is at
\* most the entry's id plus one.
C26_BackPointersPointBack ==
  /\ \A e \in Entries :
       Derived(e) =>
         \A c \in 1..Len(e.backpointers) :
           \A b \in 1..Len(e.backpointers[c]) :
             e.backpointers[c][b][1] \in 0..(e.index - 1)
  /\ \A i \in 1..Len(chart) :
       Height(_construct_parses(chart, string, chart[i])) <= chart[i].index + 1

\* the chart holds an entry whose tree has two levels of derived entries
C26_Witness ==
  \E i \in 1..Len(chart) :
    /\ Derived(chart[i])
    /\ \E b \in 1..2 : Derived(EntryWithId(chart[i].backpointers[1][b][1]))
    /\ Height(_construct_parses(chart, string, chart[i])) = 3

\* C27: when the agenda loop has ended the chart is closed under the binary
\* rules: for two chart entries X, Y and a rule whose right side aligns with
\* (X.symbol, Y.symbol) and whose adjacency conditions hold, the chart holds
\* an entry with the instantiated left side and back-pointers to X and Y.
C27_ChartClosedUnderBinaryRules ==
  pc \in {"filled", "done"} =>
    \A x \in 1..Len(chart), y \in 1..Len(chart) :
      \A i \in rules :
        LET pair == <<chart[x].symbol, chart[y].symbol>>
        IN (/\ Len(Pool[i].right_side) = 2
            /\ Aligns(Pool[i], pair)
            /\ ~Broken(Pool[i], pair))
           => \E z \in 1..Len(chart) :
                /\ chart[z].symbol
                     = MCFGRuleElementInstance(Pool[i].left_side.variable,
                                               LeftSpans(Pool[i], pair))
                /\ chart[z].backpointers
                     = <<<<<<chart[x].index, chart[x].symbol.variable>>,
                           <<chart[y].index, chart[y].symbol.variable>>>>>>

RECURSIVE LeafPositions(_)
\* the input positions of the seed entries below e, from left to right in the
\* tree _construct_parses builds for e
LeafPositions(e) ==
  IF Derived(e)
  THEN LeafPositions(EntryWithId(e.backpointers[1][1][1]))
         \o LeafPositions(EntryWithId(e.backpointers[1][2][1]))
  ELSE <<e.symbol.string_spans[1][1]>>

\* C28: in the tree of every chart entry with a start-variable name and span
\* ((0, n),) the seed leaves use each input position 0..n-1 exactly once,
\* also when the chart holds entries whose components overlap.
C28_StartEntriesUseEachTokenOnce ==
  \A i \in 1..Len(chart) :
    Covers(chart[i]) =>
      /\ Len(LeafPositions(chart[i])) = Len(string)
      /\ Range(LeafPositions(chart[i])) = 0..(Len(string) - 1)

\* the ids an entry's back-pointers name
ParentIds(e) == {e.backpointers[1][1][1], e.backpointers[1][2][1]}

\* what one call _combine(current, element) adds to the agenda, ids left out
PairYield(current, element) ==
  LET new == NewEntries(current, element, 0)
  IN [k \in 1..Len(new) |-> <<new[k].symbol, new[k].backpointers>>]

\* C29: an iteration of the agenda loop passes the popped entry to _combine
\* once with each entry that has a smaller id, all of which are in the chart,
\* and with no other entry, the popped entry itself included; the agenda
\* grows by what these calls yield, once each. So the two back-pointers of an
\* entry name different ids, both already in the chart, and a pair of entries
\* has as many entries with one symbol as rules that yield the symbol from it.
C29_EachPairCombinedOnce ==
  [][pc = "loop" =>
      /\ {chart[i].index : i \in 1..Len(chart)} = 0..(agenda[1].index - 1)
      /\ Len(chart) = agenda[1].index
      /\ chart' = Append(chart, agenda[1])
      /\ [k \in 1..(Len(agenda') - Len(agenda) + 1) |->
            <<agenda'[Len(agenda) - 1 + k].symbol,
              agenda'[Len(agenda) - 1 + k].backpointers>>]
           = Flatten([i \in 1..Len(chart) |-> PairYield(agenda[1], chart[i])])
      /\ \A e \in Range(agenda') \cup Range(chart') :
           Derived(e) =>
             /\ Cardinality(ParentIds(e)) = 2
             /\ \A id \in ParentIds(e) : \E i \in 1..Len(chart') : chart'[i].index = id
             /\ Cardinality({f \in Range(agenda') \cup Range(chart') :
                               /\ Derived(f)
                               /\ f.symbol = e.symbol
                               /\ ParentIds(f) = ParentIds(e)})
                  = Cardinality({i \in rules :
                       /\ Len(Pool[i].right_side) = 2
                       /\ instantiate_left_side(Pool[i],
                            <<chart'[e.backpointers[1][1][1] + 1].symbol,
                              chart'[e.backpointers[1][2][1] + 1].symbol>>)
                            = Returned(e.symbol.variable, e.symbol.string_spans)})
  ]_vars

\* the entry popped last was combined with two different chart entries, and
\* a derived entry is the next to be popped
C29_Witness ==
  /\ pc = "loop"
  /\ Len(chart) >= 3
  /\ Derived(agenda[1])
  /\ \E e, f \in Range(agenda) :
       /\ Derived(e)
       /\ Derived(f)
       /\ chart[Len(chart)].index \in ParentIds(e) \cap ParentIds(f)
       /\ ParentIds(e) # ParentIds(f)

\* the names on the left of the grammar's rules with n right-side elements
LeftNames(n) ==
  {Pool[i].left_side.variable : i \in {j \in rules : Len(Pool[j].right_side) = n}}

\* C30: chart entries come from lexical and binary rules only: a seed entry
\* is the instance of an epsilon rule for its word, every other entry has one
\* tuple of exactly two back-pointers and is the instance a rule with two
\* right-side elements yields from the two entries; so when every rule for a
\* start variable has one or more than two right-side elements no entry
\* carries a start variable and the input is not recognized.
C30_OnlyLexicalAndBinaryRules ==
  /\ \A e \in Entries :
       IF Derived(e)
       THEN /\ Len(e.backpointers) = 1
            /\ Len(e.backpointers[1]) = 2
            /\ \E i \in rules :
                 /\ Len(Pool[i].right_side) = 2
                 /\ instantiate_left_side(Pool[i], Parents(e))
                      = Returned(e.symbol.variable, e.symbol.string_spans)
       ELSE \E i \in parts_of_speech(string[e.symbol.string_spans[1][1] + 1]) :
              /\ e.symbol.variable = Pool[i].left_side.variable
              /\ e.symbol.string_spans
                   = <<<<e.symbol.string_spans[1][1], e.symbol.string_spans[1][1] + 1>>>>
  /\ (start_variables \cap (LeftNames(0) \cup LeftNames(2)) = {}) =>
       /\ \A e \in Entries : e.symbol.variable \notin start_variables
       /\ pc = "done" => result \in {BoolResult(FALSE), NoneResult}

\* "a b a" is rejected by a grammar that holds S(uvw) -> A(u) B(v) A(w) and
\* S(u) -> A(u), after the binary rule X(u, v) -> A(u) B(v) added entries
C30_Witness ==
  /\ pc = "done"
  /\ string = <<"a", "b", "a">>
  /\ {6} \cup {i \in ExtraIdx : Pool[i].left_side.variable = "S"} \subseteq rules
  /\ start_variables = {"S"}
  /\ result \in {BoolResult(FALSE), NoneResult}
  /\ \E i \in 1..Len(chart) : Derived(chart[i])

====
